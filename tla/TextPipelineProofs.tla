------------------------- MODULE TextPipelineProofs -------------------------
(***************************************************************************)
(* Proofs about TextPipeline for every set of turns, sessions, texts and   *)
(* names and every combination of faults: what the model sees, what the    *)
(* store keeps, where new keys come from, for overlapping turns too, and,  *)
(* when the turns of a session wait for one another, that names and        *)
(* pseudonyms pair off and an answer is restored to the right person.      *)
(***************************************************************************)
EXTENDS TextPipeline, MappingTheorems, TLAPS

-----------------------------------------------------------------------------
(* Types. *)

\* The current text of a turn is one of the texts.
LEMMA CurrentIsText ==
  ASSUME TypeOK, InText, NEW t \in Turn,
         pc[t] \in {"detect", "load", "assign", "rewrite"}
  PROVE  Current(t) \in Text
<1>1. TextsOf[t] \in Seq(Text) /\ done[t] \in Nat /\ done[t] < Len(TextsOf[t])
  BY TurnAssumption DEF TypeOK, InText
<1> QED BY <1>1 DEF Current

\* What GetMapping returns is a mapping.
LEMMA StoredIsMapping ==
  ASSUME TypeOK, NEW s \in Session
  PROVE  Stored(s) \in Mappings
BY EmptyMapping DEF TypeOK, Stored

\* The substitutions of a mapping are facts.
LEMMA FactsAreFacts ==
  ASSUME NEW text, NEW m \in Mappings, NEW l \in Nat
  PROVE  FactsOf(text, m, l) \subseteq Fact
BY DEF FactsOf, Fact, KeysFor, Keys, Mappings

\* Deduplication and the filters only drop detections.
LEMMA BestAreDetections ==
  ASSUME NEW raw \in SUBSET Detection, NEW best \in Deduplicated(Filtered(raw))
  PROVE  best \subseteq Detection
BY DEF Deduplicated, Filtered

\* The initial state is typed, and no turn has begun.
LEMMA InitType == Init => TypeOK /\ InText
BY EmptyMapping DEF Init, TypeOK, InText

\* Every step keeps the variables in their types.
LEMMA NextType == TypeOK /\ InText /\ [Next]_vars => TypeOK' /\ InText'
<1> SUFFICES ASSUME TypeOK, InText, [Next]_vars PROVE TypeOK' /\ InText'
  OBVIOUS
<1> USE TurnAssumption
<1>1. ASSUME NEW t \in Turn, Start(t) PROVE TypeOK' /\ InText'
  <2>1. Keys(Stored(SessionOf[t])) \in SUBSET Name
    BY DEF Keys
  <2>2. SessionOf[t] \in Session /\ life[SessionOf[t]] \in Nat
    BY DEF TypeOK
  <2>3. known' \in [Turn -> [life : Nat, keys : SUBSET Name]]
    BY <1>1, <2>1, <2>2 DEF Start, TypeOK
  <2>4. /\ pc' = [pc EXCEPT ![t] = After(t, 0)]
        /\ UNCHANGED <<store, life, done, found, todo, scratch, fresh, seen,
                       view, kept, released, answer, restored>>
    BY <1>1 DEF Start, Goto, local
  <2>5. /\ pc[t] = "idle"
        /\ After(t, 0) \in {"detect", "sent"}
        /\ After(t, 0) = "detect" => 0 < Len(TextsOf[t])
    <3>1. pc[t] = "idle"
      BY <1>1 DEF Start
    <3> QED BY <3>1 DEF After
  <2>6. InText'
    <3>1. ASSUME NEW u \in Turn, u # t,
                 pc'[u] \in {"detect", "load", "assign", "rewrite"}
          PROVE  done'[u] < Len(TextsOf[u])
      BY <2>4, <3>1 DEF TypeOK, InText
    <3>2. ASSUME NEW u \in Turn, u # t, pc'[u] = "idle" PROVE done'[u] = 0
      BY <2>4, <3>2 DEF TypeOK, InText
    <3>3. done'[t] = 0 /\ pc'[t] = After(t, 0)
      BY <2>4, <2>5 DEF TypeOK, InText
    <3> QED BY <2>5, <3>1, <3>2, <3>3 DEF InText
  <2> QED BY <2>3, <2>4, <2>5, <2>6 DEF TypeOK
<1>2. ASSUME NEW t \in Turn, SkipBlank(t) PROVE TypeOK' /\ InText'
  BY <1>2 DEF SkipBlank, Goto, After, TypeOK, InText, talk
<1>3. ASSUME NEW t \in Turn, Detect(t) PROVE TypeOK' /\ InText'
  <2>1. Current(t) \in Text
    BY <1>3, CurrentIsText DEF Detect
  <2>2. PICK raw \in Raw[Current(t)] : \E best \in Deduplicated(Filtered(raw)) :
          /\ found' = [found EXCEPT ![t] = best]
          /\ todo' = [todo EXCEPT ![t] = best]
    BY <1>3 DEF Detect
  <2>3. raw \in SUBSET Detection
    BY <2>1, TextAssumption DEF Detection
  <2>4. PICK best \in SUBSET Detection :
          /\ found' = [found EXCEPT ![t] = best]
          /\ todo' = [todo EXCEPT ![t] = best]
    BY <2>2, <2>3, BestAreDetections
  <2> QED BY <1>3, <2>4 DEF Detect, Goto, TypeOK, InText, talk
<1>4. ASSUME NEW t \in Turn, DetectFails(t) \/ LoadFails(t) \/ PersistFails(t)
      PROVE  TypeOK' /\ InText'
  BY <1>4 DEF DetectFails, LoadFails, PersistFails, CanPersist, Goto, TypeOK, InText, local, talk
<1>5. ASSUME NEW t \in Turn, Load(t) PROVE TypeOK' /\ InText'
  <2>1. Stored(SessionOf[t]) \in Mappings
    BY StoredIsMapping
  <2>2. SessionOf[t] \in Session /\ life[SessionOf[t]] \in Nat
    BY DEF TypeOK
  <2>3. /\ pc[t] = "load"
        /\ pc' = [pc EXCEPT ![t] = "rewrite"] \/ pc' = [pc EXCEPT ![t] = "assign"]
        /\ UNCHANGED <<store, life, done, found, todo, talk>>
    BY <1>5 DEF Load, Goto
  <2>4. /\ view' \in [Turn -> Mappings] /\ kept' \in [Turn -> Nat]
        /\ scratch' \in [Turn -> Mappings] /\ fresh' \in [Turn -> Mappings]
        /\ seen' \in [Turn -> Nat]
    <3>1. CASE found[t] = {}
      <4>1. /\ view' = [view EXCEPT ![t] = Stored(SessionOf[t])]
            /\ kept' = [kept EXCEPT ![t] = life[SessionOf[t]]]
            /\ UNCHANGED <<scratch, fresh, seen>>
        BY <1>5, <3>1 DEF Load
      <4> QED BY <4>1, <2>1, <2>2 DEF TypeOK
    <3>2. CASE found[t] # {}
      <4>1. /\ scratch' = [scratch EXCEPT ![t] = Stored(SessionOf[t])]
            /\ fresh' = [fresh EXCEPT ![t] = Empty]
            /\ seen' = [seen EXCEPT ![t] = life[SessionOf[t]]]
            /\ UNCHANGED <<view, kept>>
        BY <1>5, <3>2 DEF Load
      <4> QED BY <4>1, <2>1, <2>2, EmptyMapping DEF TypeOK
    <3> QED BY <3>1, <3>2
  <2>5. TypeOK'
    BY <2>3, <2>4 DEF TypeOK, talk
  <2> QED BY <2>3, <2>5 DEF TypeOK, InText
<1>6. ASSUME NEW t \in Turn, AssignNext(t) PROVE TypeOK' /\ InText'
  <2>1. PICK d \in todo[t] :
          /\ todo' = [todo EXCEPT ![t] = @ \ {d}]
          /\ \/ UNCHANGED <<scratch, fresh>>
             \/ \E p \in Assign(d.kind, d.name, scratch[t], Substrings[Current(t)]) :
                  LET new == Entries(d.kind, d.name, p, scratch[t])
                  IN  /\ scratch' = [scratch EXCEPT ![t] = Merge(@, new)]
                      /\ fresh' = [fresh EXCEPT ![t] = Merge(@, new)]
    BY <1>6 DEF AssignNext
  <2>2. d.kind \in Kind /\ d.name \in Name
    BY DEF TypeOK, Detection
  <2>3. scratch' \in [Turn -> Mappings] /\ fresh' \in [Turn -> Mappings]
    <3>1. CASE UNCHANGED <<scratch, fresh>>
      BY <3>1 DEF TypeOK
    <3>2. ASSUME NEW p \in Assign(d.kind, d.name, scratch[t], Substrings[Current(t)]),
                 scratch' = [scratch EXCEPT ![t] = Merge(@, Entries(d.kind, d.name, p, scratch[t]))],
                 fresh' = [fresh EXCEPT ![t] = Merge(@, Entries(d.kind, d.name, p, scratch[t]))]
          PROVE  scratch' \in [Turn -> Mappings] /\ fresh' \in [Turn -> Mappings]
      <4>1. p \in Name /\ scratch[t] \in Mappings /\ fresh[t] \in Mappings
        BY <2>2, AssignIsName DEF TypeOK
      <4>2. Entries(d.kind, d.name, p, scratch[t]) \in Mappings
        BY <2>2, <4>1, EntriesFacts
      <4>3. /\ Merge(scratch[t], Entries(d.kind, d.name, p, scratch[t])) \in Mappings
            /\ Merge(fresh[t], Entries(d.kind, d.name, p, scratch[t])) \in Mappings
        BY <4>1, <4>2, MergeFacts
      <4> QED BY <3>2, <4>3 DEF TypeOK
    <3> QED BY <2>1, <3>1, <3>2
  <2> QED BY <1>6, <2>1, <2>3 DEF AssignNext, TypeOK, InText, talk
<1>7. ASSUME NEW t \in Turn, UseLoaded(t) PROVE TypeOK' /\ InText'
  BY <1>7 DEF UseLoaded, Goto, TypeOK, InText, talk
<1>8. ASSUME NEW t \in Turn, RunScript(t)
      PROVE  /\ store' \in [Session -> Mappings \cup {Corrupt}]
             /\ store'[SessionOf[t]] \in Mappings
  <2>1. store[SessionOf[t]] \in Mappings /\ fresh[t] \in Mappings
    BY <1>8 DEF RunScript, TypeOK
  <2>2. Merge(store[SessionOf[t]], fresh[t]) \in Mappings
    BY <2>1, MergeFacts
  <2> QED BY <1>8, <2>2 DEF RunScript, TypeOK
<1>9. ASSUME NEW t \in Turn, Persist(t) PROVE TypeOK' /\ InText'
  <2>1. RunScript(t)
    BY <1>9 DEF Persist
  <2> QED BY <1>8, <1>9, <2>1 DEF Persist, CanPersist, Goto, TypeOK, InText, talk
<1>10. ASSUME NEW t \in Turn, PersistUnanswered(t) PROVE TypeOK' /\ InText'
  <2>1. RunScript(t)
    BY <1>10 DEF PersistUnanswered
  <2> QED BY <1>8, <1>10, <2>1 DEF PersistUnanswered, TypeOK, InText, local, talk
<1>11. ASSUME NEW t \in Turn, Rewrite(t) PROVE TypeOK' /\ InText'
  <2>1. FactsOf(Current(t), view[t], kept[t]) \subseteq Fact
    BY FactsAreFacts DEF TypeOK
  <2> QED BY <1>11, <2>1 DEF Rewrite, Goto, After, TypeOK, InText
<1>12. ASSUME NEW t \in Turn, ModelAnswers(t) PROVE TypeOK' /\ InText'
  <2>1. {f.pseudo : f \in released[t]} \subseteq Name
    BY DEF TypeOK, Fact
  <2>2. answer' \in [Turn -> Name \cup {NoName}]
    BY <1>12, <2>1 DEF ModelAnswers, TypeOK
  <2> QED BY <1>12, <2>2 DEF ModelAnswers, Goto, TypeOK, InText, local
<1>13. ASSUME NEW t \in Turn, Reverse(t) \/ ReverseUnavailable(t)
       PROVE  TypeOK' /\ InText'
  <2>1. Inverse(Stored(SessionOf[t]), answer[t]) \subseteq Name
    BY DEF Inverse, Keys
  <2>2. restored' \in [Turn -> Name \cup {NoName}]
    <3>1. restored \in [Turn -> Name \cup {NoName}] /\ answer[t] \in Name \cup {NoName}
      BY DEF TypeOK
    <3>2. PICK r \in Name \cup {NoName} : restored' = [restored EXCEPT ![t] = r]
      <4>1. CASE Reverse(t)
        <5>1. PICK r \in {answer[t]} \cup Inverse(Stored(SessionOf[t]), answer[t]) :
                restored' = [restored EXCEPT ![t] = r]
          BY <4>1 DEF Reverse
        <5>2. r \in Name \cup {NoName}
          BY <2>1, <3>1, <5>1
        <5> QED BY <5>1, <5>2
      <4>2. CASE ReverseUnavailable(t)
        <5>1. restored' = [restored EXCEPT ![t] = answer[t]]
          BY <4>2 DEF ReverseUnavailable
        <5> QED BY <3>1, <5>1
      <4> QED BY <1>13, <4>1, <4>2
    <3> QED BY <3>1, <3>2
  <2>3. /\ pc[t] = "answered" /\ pc' = [pc EXCEPT ![t] = "over"]
        /\ UNCHANGED <<store, life, local, released, answer, known>>
    BY <1>13 DEF Reverse, ReverseUnavailable, Goto
  <2>4. TypeOK'
    BY <2>2, <2>3 DEF TypeOK, local
  <2>5. ASSUME NEW u \in Turn PROVE (pc'[u] = pc[u] \/ pc'[u] = "over") /\ done'[u] = done[u]
    BY <2>3 DEF TypeOK, local
  <2>6. InText'
    BY <2>5 DEF InText
  <2> QED BY <2>4, <2>6
<1>14. ASSUME NEW s \in Session, Forget(s) \/ Garble(s) PROVE TypeOK' /\ InText'
  <2>1. /\ store' \in [Session -> Mappings \cup {Corrupt}]
        /\ life' \in [Session -> Nat]
    <3>1. /\ \/ store' = [store EXCEPT ![s] = Empty]
             \/ store' = [store EXCEPT ![s] = Corrupt]
          /\ life' = [life EXCEPT ![s] = life[s] + 1]
      BY <1>14 DEF Forget, Garble
    <3>2. life' \in [Session -> Nat]
      BY <3>1 DEF TypeOK
    <3>3. store' \in [Session -> Mappings \cup {Corrupt}]
      BY <3>1, EmptyMapping DEF TypeOK
    <3> QED BY <3>2, <3>3
  <2>2. UNCHANGED <<pc, done, found, todo, scratch, fresh, seen, view, kept,
                    released, answer, restored, known>>
    BY <1>14 DEF Forget, Garble, local, talk
  <2>3. TypeOK'
    BY <2>1, <2>2 DEF TypeOK
  <2>4. InText'
    BY <2>2 DEF InText
  <2> QED BY <2>3, <2>4
<1>15. ASSUME UNCHANGED vars PROVE TypeOK' /\ InText'
  <2>1. UNCHANGED <<store, life, pc, done, found, todo, scratch, fresh, seen,
                    view, kept, released, answer, restored, known>>
    BY <1>15 DEF vars, local, talk
  <2>2. TypeOK'
    BY <2>1 DEF TypeOK
  <2>3. InText'
    BY <2>1 DEF InText
  <2> QED BY <2>2, <2>3
<1> QED BY <1>1, <1>2, <1>3, <1>4, <1>5, <1>6, <1>7, <1>9, <1>10, <1>11, <1>12,
           <1>13, <1>14, <1>15 DEF Next, Precall, Postcall, AllOver

\* The variables of the text pipeline keep their types in every behaviour.
THEOREM TypeCorrect == Spec => []TypeOK
<1>1. Spec => [](TypeOK /\ InText)
  BY InitType, NextType, PTL DEF Spec
<1> QED BY <1>1, PTL

-----------------------------------------------------------------------------
(* Safety.  A step either is taken by one turn, which leaves the others    *)
(* alone and at most adds entries to the store, or forgets a session.      *)

\* A turn's part of the state is left alone.
Same(t) ==
  /\ pc'[t] = pc[t] /\ found'[t] = found[t] /\ todo'[t] = todo[t]
  /\ scratch'[t] = scratch[t] /\ fresh'[t] = fresh[t] /\ seen'[t] = seen[t]
  /\ view'[t] = view[t] /\ kept'[t] = kept[t] /\ released'[t] = released[t]
  /\ known'[t] = known[t]

\* No entry of the store is lost or changed.
Grows ==
  \A s \in Session, n \in Name :
    Stored(s)[n] # NoName => Stored(s)'[n] = Stored(s)[n]

\* Everything a turn shows after the step it showed before, or it has just
\* read it from the store.
ShowsNothingElse(t) ==
  \A f \in Shown(t)' :
    \/ f \in Shown(t)
    \/ f.life = life[SessionOf[t]] /\ Stored(SessionOf[t])'[f.key] = f.pseudo

\* What a turn shows are facts.
LEMMA ShownAreFacts ==
  ASSUME TypeOK, NEW t \in Turn
  PROVE  Shown(t) \subseteq Fact
<1>1. Snapshot(view[t], Keys(view[t]), kept[t]) \subseteq Fact
  BY DEF TypeOK, Snapshot, Keys, Mappings, Fact
<1>2. Snapshot(scratch[t], Loaded(t), seen[t]) \subseteq Fact
  BY DEF TypeOK, Snapshot, Loaded, Keys, Mappings, Fact
<1>3. released[t] \subseteq Fact
  BY DEF TypeOK
<1> QED BY <1>1, <1>2, <1>3 DEF Shown

\* A turn that is left alone shows what it showed.
LEMMA SameShows ==
  ASSUME NEW t \in Turn, Same(t)
  PROVE  Shown(t)' = Shown(t)
BY DEF Same, Shown, Snapshot, Loaded, Keys

\* A step of one turn keeps the invariant if that turn shows nothing else and
\* keeps its own part.
LEMMA TurnStep ==
  ASSUME IInv, TypeOK', InText', NEW t \in Turn, life' = life, Grows,
         \A u \in Turn : u # t => Same(u),
         ShowsNothingElse(t),
         HandledBy(t)', CoveredBy(t)', KnownBy(t)'
  PROVE  IInv'
<1> USE TurnAssumption
<1>1. ASSUME NEW u \in Turn
      PROVE  ShowsNothingElse(u)
  <2>1. CASE u = t
    BY <2>1
  <2>2. CASE u # t
    BY <2>2, SameShows DEF ShowsNothingElse
  <2> QED BY <2>1, <2>2
<1>2. ASSUME NEW u \in Turn, NEW f \in Shown(u)
      PROVE  /\ f.life \in Nat /\ f.key \in Name /\ f.pseudo \in Name
             /\ f.life <= life[SessionOf[u]]
             /\ f.life = life[SessionOf[u]] =>
                  /\ Stored(SessionOf[u])[f.key] = f.pseudo
                  /\ Stored(SessionOf[u])'[f.key] = f.pseudo
  <2>1. f \in Fact
    BY ShownAreFacts DEF IInv
  <2>2. f.life \in Nat /\ f.key \in Name /\ f.pseudo \in Name
    BY <2>1 DEF Fact
  <2>3. /\ f.life <= life[SessionOf[u]]
        /\ f.life = life[SessionOf[u]] => Stored(SessionOf[u])[f.key] = f.pseudo
    BY DEF IInv, ShownIsPersisted
  <2>4. f.pseudo # NoName
    BY <2>2, NoNameAssumption
  <2> QED BY <2>2, <2>3, <2>4 DEF Grows
<1>3. ShownIsPersisted'
  <2> SUFFICES ASSUME NEW u \in Turn, NEW f \in Shown(u)'
               PROVE  /\ f.life <= life'[SessionOf[u]]
                      /\ f.life = life'[SessionOf[u]] =>
                           Stored(SessionOf[u])'[f.key] = f.pseudo
    BY DEF ShownIsPersisted
  <2>1. CASE f \in Shown(u)
    BY <1>2, <2>1
  <2>2. CASE /\ f.life = life[SessionOf[u]]
             /\ Stored(SessionOf[u])'[f.key] = f.pseudo
    <3>1. SessionOf[u] \in Session /\ life \in [Session -> Nat]
      BY TurnAssumption DEF IInv, TypeOK
    <3>2. life[SessionOf[u]] \in Nat
      BY <3>1
    <3>3. f.life <= life'[SessionOf[u]]
      BY <1>1, <2>2, <3>2
    <3> QED BY <2>2, <3>3
  <2> QED BY <1>1, <2>1, <2>2 DEF ShowsNothingElse
<1>4. ShownAgrees'
  <2> SUFFICES ASSUME NEW u \in Turn, NEW v \in Turn, SessionOf[u] = SessionOf[v],
                      NEW f \in Shown(u)', NEW g \in Shown(v)',
                      f.life = g.life, f.key = g.key
               PROVE  f.pseudo = g.pseudo
    BY DEF ShownAgrees
  <2>1. CASE f \in Shown(u) /\ g \in Shown(v)
    BY <2>1 DEF IInv, ShownAgrees
  <2>2. CASE f.life = life[SessionOf[u]]
    <3>1. Stored(SessionOf[u])'[f.key] = f.pseudo
      BY <1>3, <2>2 DEF ShownIsPersisted
    <3>2. Stored(SessionOf[v])'[g.key] = g.pseudo
      BY <1>3, <2>2 DEF ShownIsPersisted
    <3> QED BY <3>1, <3>2
  <2> QED BY <1>1, <2>1, <2>2 DEF ShowsNothingElse
<1>5. ASSUME NEW u \in Turn, u # t
      PROVE  HandledBy(u)' /\ CoveredBy(u)' /\ KnownBy(u)'
  <2>1. Same(u)
    BY <1>5
  <2>2. HandledBy(u) /\ CoveredBy(u) /\ KnownBy(u)
    BY DEF IInv
  <2>3. HandledBy(u)'
    BY <2>1, <2>2 DEF HandledBy, Same, HasKey, KeysFor, Keys
  <2>4. CoveredBy(u)'
    BY <2>1, <2>2 DEF CoveredBy, Same, HasKey, KeysFor, Keys
  <2>5. Keys(Stored(SessionOf[u])) \subseteq Keys(Stored(SessionOf[u]))'
    BY DEF Grows, Keys
  <2>6. KnownBy(u)'
    <3>1. /\ pc'[u] = pc[u] /\ known'[u] = known[u] /\ seen'[u] = seen[u]
          /\ kept'[u] = kept[u]
      BY <2>1 DEF Same
    <3>2. Keys(scratch[u])' = Keys(scratch[u]) /\ Keys(view[u])' = Keys(view[u])
      BY <2>1 DEF Same, Keys
    <3>3. /\ known[u].life <= life[SessionOf[u]]
          /\ known[u].life = life[SessionOf[u]] =>
               known[u].keys \subseteq Keys(Stored(SessionOf[u]))
          /\ pc[u] = "assign" /\ seen[u] = known[u].life =>
               known[u].keys \subseteq Keys(scratch[u])
          /\ pc[u] = "rewrite" /\ kept[u] = known[u].life =>
               known[u].keys \subseteq Keys(view[u])
      BY <2>2 DEF KnownBy
    <3>4. known'[u].life = life'[SessionOf[u]] =>
            known'[u].keys \subseteq Keys(Stored(SessionOf[u]))'
      BY <2>5, <3>1, <3>3
    <3> QED BY <3>1, <3>2, <3>3, <3>4 DEF KnownBy
  <2> QED BY <2>3, <2>4, <2>6
<1> QED BY <1>3, <1>4, <1>5 DEF IInv

\* The script of AddMappings only adds entries.
LEMMA ScriptGrows ==
  ASSUME TypeOK, NEW t \in Turn, RunScript(t)
  PROVE  /\ Grows
         /\ Stored(SessionOf[t]) \in Mappings
         /\ Stored(SessionOf[t])' = Merge(Stored(SessionOf[t]), fresh[t])
         /\ store'[SessionOf[t]] = Stored(SessionOf[t])'
<1> DEFINE s == SessionOf[t]
<1>1. s \in Session
  BY TurnAssumption
<1>2. store[s] # Corrupt /\ store[s] \in Mappings /\ fresh[t] \in Mappings
  BY <1>1 DEF RunScript, TypeOK
<1>3. Merge(store[s], fresh[t]) \in Mappings
  BY <1>2, MergeFacts
<1>4. store' = [store EXCEPT ![s] = Merge(store[s], fresh[t])]
  BY DEF RunScript
<1>5. store'[s] = Merge(store[s], fresh[t]) /\ store'[s] # Corrupt
  BY <1>1, <1>3, <1>4, CorruptAssumption DEF TypeOK
<1>6. Stored(s) = store[s] /\ Stored(s)' = store'[s]
  BY <1>2, <1>5 DEF Stored
<1>7. ASSUME NEW r \in Session, NEW n \in Name, Stored(r)[n] # NoName
      PROVE  Stored(r)'[n] = Stored(r)[n]
  <2>1. CASE r = s
    BY <1>2, <1>5, <1>6, <1>7, <2>1, MergeFacts
  <2>2. CASE r # s
    BY <1>1, <1>4, <2>2 DEF Stored, TypeOK
  <2> QED BY <2>1, <2>2
<1> QED BY <1>2, <1>5, <1>6, <1>7 DEF Grows

\* A step that leaves the store and a turn's mappings alone, and leaves the
\* turn outside the two stages that use them, keeps the invariant.
LEMMA QuietStep ==
  ASSUME IInv, TypeOK', InText', NEW t \in Turn, store' = store, life' = life,
         \A u \in Turn : u # t => Same(u),
         released'[t] = released[t],
         known'[t] = known[t] \/ known'[t] = [life |-> life[SessionOf[t]],
                                              keys |-> Keys(Stored(SessionOf[t]))],
         pc'[t] \notin {"assign", "rewrite"},
         pc'[t] = "load" => todo'[t] = found'[t]
  PROVE  IInv'
<1>1. Grows
  BY DEF Grows, Stored
<1>2. ShowsNothingElse(t)
  BY DEF ShowsNothingElse, Shown
<1>3. HandledBy(t)' /\ CoveredBy(t)'
  BY DEF HandledBy, CoveredBy
<1>4. KnownBy(t)'
  <2>1. Stored(SessionOf[t])' = Stored(SessionOf[t])
    BY DEF Stored
  <2>2. life[SessionOf[t]] \in Nat
    BY TurnAssumption DEF IInv, TypeOK
  <2>3. KnownBy(t)
    BY DEF IInv
  <2>4. CASE known'[t] = known[t]
    BY <2>1, <2>3, <2>4 DEF KnownBy
  <2>5. CASE known'[t] = [life |-> life[SessionOf[t]],
                          keys |-> Keys(Stored(SessionOf[t]))]
    BY <2>1, <2>2, <2>5 DEF KnownBy
  <2> QED BY <2>4, <2>5
<1> QED BY <1>1, <1>2, <1>3, <1>4, TurnStep

\* The initial state satisfies the inductive invariant: nothing was shown yet.
LEMMA InitInv == Init => IInv
<1> SUFFICES ASSUME Init PROVE IInv
  OBVIOUS
<1>1. \A t \in Turn : Shown(t) = {} /\ known[t].keys = {} /\ known[t].life = 0
  BY DEF Init, Shown
<1>2. \A t \in Turn : life[SessionOf[t]] = 0 /\ pc[t] = "idle"
  BY TurnAssumption DEF Init
<1>3. ShownIsPersisted /\ ShownAgrees
  BY <1>1 DEF ShownIsPersisted, ShownAgrees
<1>4. \A t \in Turn : HandledBy(t) /\ CoveredBy(t) /\ KnownBy(t)
  BY <1>1, <1>2 DEF HandledBy, CoveredBy, KnownBy
<1> QED BY <1>3, <1>4, InitType DEF IInv

\* Detection leaves all of its findings to be handled.
LEMMA DetectLeavesAll ==
  ASSUME TypeOK, NEW t \in Turn, Detect(t)
  PROVE  todo'[t] = found'[t]
BY DEF Detect, TypeOK

\* Steps that stay clear of the store and of the mappings.
LEMMA QuietSteps ==
  ASSUME IInv, TypeOK', InText', NEW t \in Turn,
         \/ Start(t) \/ SkipBlank(t) \/ Detect(t) \/ DetectFails(t) \/ LoadFails(t)
         \/ PersistFails(t) \/ ModelAnswers(t) \/ Reverse(t) \/ ReverseUnavailable(t)
  PROVE  IInv'
<1>1. TypeOK
  BY DEF IInv
<1>2. ASSUME \/ SkipBlank(t) \/ Detect(t) \/ DetectFails(t) \/ LoadFails(t)
             \/ PersistFails(t) \/ ModelAnswers(t) \/ Reverse(t) \/ ReverseUnavailable(t)
      PROVE  /\ UNCHANGED <<store, life, scratch, fresh, seen, view, kept, released, known>>
             /\ \E label \in {"detect", "sent", "load", "failed", "answered", "over"} :
                  pc' = [pc EXCEPT ![t] = label]
  BY <1>2 DEF SkipBlank, Detect, DetectFails, LoadFails, PersistFails, ModelAnswers,
              Reverse, ReverseUnavailable, Goto, After, local, talk
<1>3. ASSUME \/ SkipBlank(t) \/ Detect(t) \/ DetectFails(t) \/ LoadFails(t)
             \/ PersistFails(t) \/ ModelAnswers(t) \/ Reverse(t) \/ ReverseUnavailable(t)
      PROVE  \A u \in Turn : u # t => found'[u] = found[u] /\ todo'[u] = todo[u]
  BY <1>1, <1>3 DEF SkipBlank, Detect, DetectFails, LoadFails, PersistFails, ModelAnswers,
                    Reverse, ReverseUnavailable, local, talk, TypeOK
<1>4. CASE Start(t)
  <2>1. /\ UNCHANGED <<store, life, found, todo, scratch, fresh, seen, view, kept, released>>
        /\ pc' = [pc EXCEPT ![t] = After(t, 0)]
        /\ known' = [known EXCEPT ![t] = [life |-> life[SessionOf[t]],
                                          keys |-> Keys(Stored(SessionOf[t]))]]
    BY <1>4 DEF Start, Goto, local
  <2>2. After(t, 0) \notin {"assign", "rewrite", "load"}
    BY DEF After
  <2>3. \A u \in Turn : u # t => Same(u)
    BY <1>1, <2>1 DEF Same, TypeOK
  <2>4. /\ released'[t] = released[t] /\ pc'[t] \notin {"assign", "rewrite", "load"}
        /\ known'[t] = [life |-> life[SessionOf[t]], keys |-> Keys(Stored(SessionOf[t]))]
        /\ store' = store /\ life' = life
    BY <1>1, <2>1, <2>2 DEF TypeOK
  <2> QED BY <2>3, <2>4, QuietStep
<1>5. CASE \/ SkipBlank(t) \/ Detect(t) \/ DetectFails(t) \/ LoadFails(t)
           \/ PersistFails(t) \/ ModelAnswers(t) \/ Reverse(t) \/ ReverseUnavailable(t)
  <2>1. /\ UNCHANGED <<store, life, scratch, fresh, seen, view, kept, released, known>>
        /\ \E label \in {"detect", "sent", "load", "failed", "answered", "over"} :
             pc' = [pc EXCEPT ![t] = label]
    BY <1>2, <1>5
  <2>2. \A u \in Turn : u # t => Same(u)
    BY <1>1, <1>3, <1>5, <2>1 DEF Same, TypeOK
  <2>3. /\ released'[t] = released[t] /\ known'[t] = known[t]
        /\ pc'[t] \notin {"assign", "rewrite"}
        /\ store' = store /\ life' = life
    BY <1>1, <2>1 DEF TypeOK
  <2>4. pc'[t] = "load" => todo'[t] = found'[t]
    <3>1. CASE Detect(t)
      BY <1>1, <3>1, DetectLeavesAll
    <3>2. CASE \/ SkipBlank(t) \/ DetectFails(t) \/ LoadFails(t) \/ PersistFails(t)
               \/ ModelAnswers(t) \/ Reverse(t) \/ ReverseUnavailable(t)
      BY <1>1, <3>2 DEF SkipBlank, DetectFails, LoadFails, PersistFails, ModelAnswers,
                        Reverse, ReverseUnavailable, Goto, After, TypeOK
    <3> QED BY <1>5, <3>1, <3>2
  <2> QED BY <2>2, <2>3, <2>4, QuietStep
<1> QED BY <1>4, <1>5

\* GetMapping.
LEMMA LoadStep ==
  ASSUME IInv, TypeOK', InText', NEW t \in Turn, Load(t)
  PROVE  IInv'
<1> DEFINE s == SessionOf[t]
           existing == Stored(s)
<1>1. TypeOK /\ KnownBy(t) /\ s \in Session
  BY TurnAssumption DEF IInv
<1>2. /\ UNCHANGED <<store, life, found, todo, released, known>>
      /\ pc[t] = "load"
  BY DEF Load, talk
<1>3. existing' = existing /\ Grows /\ life' = life
  BY <1>2 DEF Stored, Grows
<1>4. CASE found[t] = {}
  <2>1. /\ view' = [view EXCEPT ![t] = existing]
        /\ kept' = [kept EXCEPT ![t] = life[s]]
        /\ pc' = [pc EXCEPT ![t] = "rewrite"]
        /\ UNCHANGED <<scratch, fresh, seen>>
    BY <1>4 DEF Load, Goto
  <2>2. \A u \in Turn : u # t => Same(u)
    BY <1>1, <1>2, <2>1 DEF Same, TypeOK
  <2>3. /\ pc'[t] = "rewrite" /\ view'[t] = existing /\ kept'[t] = life[s]
        /\ found'[t] = {} /\ released'[t] = released[t] /\ known'[t] = known[t]
    BY <1>1, <1>2, <1>4, <2>1 DEF TypeOK
  <2>4. ShowsNothingElse(t)
    BY <1>3, <2>3 DEF ShowsNothingElse, Shown, Snapshot
  <2>5. HandledBy(t)' /\ CoveredBy(t)'
    BY <2>3 DEF HandledBy, CoveredBy
  <2>6. KnownBy(t)'
    BY <1>1, <1>3, <2>3 DEF KnownBy
  <2> QED BY <1>3, <2>2, <2>4, <2>5, <2>6, TurnStep
<1>5. CASE found[t] # {}
  <2>1. /\ scratch' = [scratch EXCEPT ![t] = existing]
        /\ fresh' = [fresh EXCEPT ![t] = Empty]
        /\ seen' = [seen EXCEPT ![t] = life[s]]
        /\ pc' = [pc EXCEPT ![t] = "assign"]
        /\ UNCHANGED <<view, kept>>
    BY <1>5 DEF Load, Goto
  <2>2. \A u \in Turn : u # t => Same(u)
    BY <1>1, <1>2, <2>1 DEF Same, TypeOK
  <2>3. /\ pc'[t] = "assign" /\ scratch'[t] = existing /\ seen'[t] = life[s]
        /\ found'[t] = found[t] /\ todo'[t] = todo[t]
        /\ released'[t] = released[t] /\ known'[t] = known[t]
    BY <1>1, <1>2, <2>1 DEF TypeOK
  <2>4. ShowsNothingElse(t)
    BY <1>3, <2>3 DEF ShowsNothingElse, Shown, Snapshot
  <2>5. HandledBy(t)' /\ CoveredBy(t)'
    BY <1>2, <2>3 DEF IInv, HandledBy, CoveredBy
  <2>6. KnownBy(t)'
    BY <1>1, <1>3, <2>3 DEF KnownBy
  <2> QED BY <1>3, <2>2, <2>4, <2>5, <2>6, TurnStep
<1> QED BY <1>4, <1>5

\* One round of assignNew.
LEMMA AssignStep ==
  ASSUME IInv, TypeOK', InText', NEW t \in Turn, AssignNext(t)
  PROVE  IInv'
<1>1. TypeOK /\ HandledBy(t) /\ KnownBy(t)
  BY DEF IInv
<1>2. /\ UNCHANGED <<store, life, pc, found, seen, view, kept, released, known>>
      /\ pc[t] = "assign"
  BY DEF AssignNext, talk
<1>3. Grows /\ life' = life /\ Stored(SessionOf[t])' = Stored(SessionOf[t])
  BY <1>2 DEF Grows, Stored
<1>4. PICK d \in todo[t] :
        /\ todo' = [todo EXCEPT ![t] = @ \ {d}]
        /\ \/ HasKey(scratch[t], d.name) /\ UNCHANGED <<scratch, fresh>>
           \/ \E p \in Assign(d.kind, d.name, scratch[t], Substrings[Current(t)]) :
                LET new == Entries(d.kind, d.name, p, scratch[t])
                IN  /\ scratch' = [scratch EXCEPT ![t] = Merge(@, new)]
                    /\ fresh' = [fresh EXCEPT ![t] = Merge(@, new)]
  BY DEF AssignNext
<1>5. d.kind \in Kind /\ d.name \in Name /\ scratch[t] \in Mappings /\ fresh[t] \in Mappings
  BY <1>1 DEF TypeOK, Detection
<1>6. \/ /\ HasKey(scratch[t], d.name)
         /\ UNCHANGED <<scratch, fresh>>
      \/ \E new \in Mappings :
           /\ new[d.name] \in Name
           /\ scratch' = [scratch EXCEPT ![t] = Merge(scratch[t], new)]
           /\ fresh' = [fresh EXCEPT ![t] = Merge(fresh[t], new)]
  <2>1. ASSUME NEW p \in Assign(d.kind, d.name, scratch[t], Substrings[Current(t)])
        PROVE  /\ Entries(d.kind, d.name, p, scratch[t]) \in Mappings
               /\ Entries(d.kind, d.name, p, scratch[t])[d.name] \in Name
    BY <1>5, <2>1, AssignIsName, EntriesFacts
  <2> QED BY <1>4, <2>1
<1>7. \A u \in Turn : u # t => Same(u)
  BY <1>1, <1>2, <1>4, <1>6 DEF Same, TypeOK
<1>8. /\ Keys(scratch[t]) \subseteq Keys(scratch'[t])
      /\ HasKey(scratch'[t], d.name)
      /\ \A k \in Loaded(t)' : k \in Loaded(t) /\ scratch'[t][k] = scratch[t][k]
  <2>1. CASE HasKey(scratch[t], d.name) /\ UNCHANGED <<scratch, fresh>>
    BY <2>1 DEF Loaded, Keys
  <2>2. ASSUME NEW new \in Mappings, new[d.name] \in Name,
               scratch' = [scratch EXCEPT ![t] = Merge(scratch[t], new)],
               fresh' = [fresh EXCEPT ![t] = Merge(fresh[t], new)]
        PROVE  /\ Keys(scratch[t]) \subseteq Keys(scratch'[t])
               /\ HasKey(scratch'[t], d.name)
               /\ \A k \in Loaded(t)' : k \in Loaded(t) /\ scratch'[t][k] = scratch[t][k]
    <3>1. scratch'[t] = Merge(scratch[t], new) /\ fresh'[t] = Merge(fresh[t], new)
      BY <1>1, <2>2 DEF TypeOK
    <3>2. Keys(scratch[t]) \subseteq Keys(scratch'[t])
      BY <1>5, <3>1, MergeFacts DEF Keys
    <3>3. d.name \in Keys(scratch'[t])
      BY <1>5, <2>2, <3>1, MergeFacts, NoNameAssumption DEF Keys
    <3>4. HasKey(scratch'[t], d.name)
      BY <3>3 DEF HasKey, KeysFor
    <3>5. ASSUME NEW k \in Name, scratch'[t][k] # NoName, fresh'[t][k] = NoName
          PROVE  scratch[t][k] # NoName /\ fresh[t][k] = NoName /\ scratch'[t][k] = scratch[t][k]
      BY <1>5, <3>1, <3>5, MergeFacts
    <3> QED BY <3>2, <3>4, <3>5 DEF Loaded, Keys
  <2> QED BY <1>6, <2>1, <2>2
<1>9. ShowsNothingElse(t)
  BY <1>2, <1>8 DEF ShowsNothingElse, Shown, Snapshot
<1>10. HandledBy(t)'
  <2>1. todo'[t] = todo[t] \ {d}
    BY <1>1, <1>4 DEF TypeOK
  <2>2. \A e \in found[t] \ todo[t] : HasKey(scratch'[t], e.name)
    BY <1>1, <1>2, <1>8, MoreKeys DEF HandledBy
  <2> QED BY <1>1, <1>2, <1>8, <2>1, <2>2 DEF HandledBy
<1>11. CoveredBy(t)'
  BY <1>2 DEF CoveredBy
<1>12. KnownBy(t)'
  BY <1>1, <1>2, <1>3, <1>8 DEF KnownBy
<1> QED BY <1>3, <1>7, <1>9, <1>10, <1>11, <1>12, TurnStep

\* Everything was mapped already.
LEMMA UseLoadedStep ==
  ASSUME IInv, TypeOK', InText', NEW t \in Turn, UseLoaded(t)
  PROVE  IInv'
<1>1. TypeOK /\ HandledBy(t) /\ KnownBy(t)
  BY DEF IInv
<1>2. /\ UNCHANGED <<store, life, found, todo, scratch, fresh, seen, released, known>>
      /\ pc[t] = "assign" /\ todo[t] = {} /\ fresh[t] = Empty
      /\ view' = [view EXCEPT ![t] = scratch[t]]
      /\ kept' = [kept EXCEPT ![t] = seen[t]]
      /\ pc' = [pc EXCEPT ![t] = "rewrite"]
  BY DEF UseLoaded, Goto, talk
<1>3. Grows /\ life' = life /\ Stored(SessionOf[t])' = Stored(SessionOf[t])
  BY <1>2 DEF Grows, Stored
<1>4. /\ pc'[t] = "rewrite" /\ view'[t] = scratch[t] /\ kept'[t] = seen[t]
      /\ \A u \in Turn : u # t => Same(u)
  BY <1>1, <1>2 DEF Same, TypeOK
<1>5. Loaded(t) = Keys(scratch[t])
  BY <1>2, EmptyMapping DEF Loaded, Keys
<1>6. ShowsNothingElse(t)
  BY <1>2, <1>4, <1>5 DEF ShowsNothingElse, Shown, Snapshot
<1>7. HandledBy(t)' /\ CoveredBy(t)'
  BY <1>1, <1>2, <1>4 DEF HandledBy, CoveredBy
<1>8. KnownBy(t)'
  BY <1>1, <1>2, <1>3, <1>4 DEF KnownBy
<1> QED BY <1>3, <1>4, <1>6, <1>7, <1>8, TurnStep

\* AddMappings, answered.
LEMMA PersistStep ==
  ASSUME IInv, TypeOK', InText', NEW t \in Turn, Persist(t)
  PROVE  IInv'
<1> DEFINE s == SessionOf[t]
<1>1. TypeOK /\ HandledBy(t) /\ KnownBy(t) /\ s \in Session
  BY TurnAssumption DEF IInv
<1>2. /\ UNCHANGED <<life, found, todo, scratch, fresh, seen, released, known>>
      /\ pc[t] = "assign" /\ todo[t] = {}
      /\ view' = [view EXCEPT ![t] = store'[s]]
      /\ kept' = [kept EXCEPT ![t] = life[s]]
      /\ pc' = [pc EXCEPT ![t] = "rewrite"]
  BY DEF Persist, CanPersist, Goto, talk
<1>3. /\ Grows /\ Stored(s) \in Mappings
      /\ Stored(s)' = Merge(Stored(s), fresh[t]) /\ store'[s] = Stored(s)'
  BY <1>1, ScriptGrows DEF Persist
<1>4. /\ pc'[t] = "rewrite" /\ view'[t] = Stored(s)' /\ kept'[t] = life[s]
      /\ \A u \in Turn : u # t => Same(u)
  BY <1>1, <1>2, <1>3 DEF Same, TypeOK
<1>5. ShowsNothingElse(t)
  BY <1>2, <1>4 DEF ShowsNothingElse, Shown, Snapshot
<1>6. seen[t] = life[s] => Keys(scratch[t]) \subseteq Keys(view'[t])
  <2> SUFFICES ASSUME seen[t] = life[s], NEW k \in Keys(scratch[t])
               PROVE  k \in Keys(view'[t])
    OBVIOUS
  <2>1. k \in Name /\ scratch[t][k] # NoName /\ fresh[t] \in Mappings
    BY <1>1 DEF Keys, TypeOK
  <2>2. CASE fresh[t][k] # NoName
    BY <1>3, <1>4, <2>1, <2>2, MergeFacts DEF Keys
  <2>3. CASE fresh[t][k] = NoName
    <3>1. [life |-> seen[t], key |-> k, pseudo |-> scratch[t][k]] \in Shown(t)
      BY <1>2, <2>1, <2>3 DEF Shown, Snapshot, Loaded, Keys
    <3>2. Stored(s)[k] = scratch[t][k]
      BY <3>1 DEF IInv, ShownIsPersisted
    <3> QED BY <1>3, <1>4, <2>1, <3>2, MergeFacts DEF Keys
  <2> QED BY <2>2, <2>3
<1>7. HandledBy(t)' /\ CoveredBy(t)'
  <2>1. ASSUME kept'[t] = seen'[t], NEW d \in found'[t]
        PROVE  HasKey(view'[t], d.name)
    <3>1. HasKey(scratch[t], d.name)
      BY <1>1, <1>2 DEF HandledBy
    <3> QED BY <1>2, <1>4, <1>6, <2>1, <3>1, MoreKeys
  <2> QED BY <1>4, <2>1 DEF HandledBy, CoveredBy
<1>8. KnownBy(t)'
  <2>1. Keys(Stored(s)) \subseteq Keys(Stored(s))'
    BY <1>1, <1>3 DEF Grows, Keys
  <2> QED BY <1>1, <1>2, <1>4, <2>1 DEF KnownBy
<1> QED BY <1>2, <1>3, <1>4, <1>5, <1>7, <1>8, TurnStep

\* AddMappings, its reply lost.
LEMMA PersistUnansweredStep ==
  ASSUME IInv, TypeOK', InText', NEW t \in Turn, PersistUnanswered(t)
  PROVE  IInv'
<1>1. TypeOK /\ HandledBy(t) /\ CoveredBy(t) /\ KnownBy(t) /\ SessionOf[t] \in Session
  BY TurnAssumption DEF IInv
<1>2. UNCHANGED <<life, pc, found, todo, scratch, fresh, seen, view, kept, released, known>>
  BY DEF PersistUnanswered, local, talk
<1>3. Grows
  BY <1>1, ScriptGrows DEF PersistUnanswered
<1>4. \A u \in Turn : Same(u)
  BY <1>2 DEF Same
<1>5. ShowsNothingElse(t)
  BY <1>4, SameShows DEF ShowsNothingElse
<1>6. HandledBy(t)' /\ CoveredBy(t)'
  BY <1>1, <1>2 DEF HandledBy, CoveredBy
<1>7. KnownBy(t)'
  <2>1. Keys(Stored(SessionOf[t])) \subseteq Keys(Stored(SessionOf[t]))'
    BY <1>1, <1>3 DEF Grows, Keys
  <2> QED BY <1>1, <1>2, <2>1 DEF KnownBy
<1> QED BY <1>2, <1>3, <1>4, <1>5, <1>6, <1>7, TurnStep

\* Replace: the substitutions made are those of the view.
LEMMA RewriteStep ==
  ASSUME IInv, TypeOK', InText', NEW t \in Turn, Rewrite(t)
  PROVE  IInv'
<1>1. TypeOK /\ KnownBy(t)
  BY DEF IInv
<1>2. /\ UNCHANGED <<store, life, found, todo, scratch, fresh, seen, view, kept, known>>
      /\ pc[t] = "rewrite"
      /\ released' = [released EXCEPT ![t] = @ \cup FactsOf(Current(t), view[t], kept[t])]
      /\ pc' = [pc EXCEPT ![t] = After(t, done[t] + 1)]
  BY DEF Rewrite, Goto
<1>3. Grows /\ life' = life /\ Stored(SessionOf[t])' = Stored(SessionOf[t])
  BY <1>2 DEF Grows, Stored
<1>4. /\ pc'[t] \notin {"load", "assign", "rewrite"}
      /\ released'[t] = released[t] \cup FactsOf(Current(t), view[t], kept[t])
      /\ \A u \in Turn : u # t => Same(u)
  BY <1>1, <1>2 DEF Same, After, TypeOK
<1>5. FactsOf(Current(t), view[t], kept[t]) \subseteq Snapshot(view[t], Keys(view[t]), kept[t])
  BY DEF FactsOf, Snapshot, KeysFor
<1>6. ShowsNothingElse(t)
  BY <1>2, <1>4, <1>5 DEF ShowsNothingElse, Shown
<1>7. HandledBy(t)' /\ CoveredBy(t)'
  BY <1>4 DEF HandledBy, CoveredBy
<1>8. KnownBy(t)'
  BY <1>1, <1>2, <1>3, <1>4 DEF KnownBy
<1> QED BY <1>3, <1>4, <1>6, <1>7, <1>8, TurnStep

\* A session is forgotten: what was shown belongs to an earlier lifetime.
LEMMA ForgetStep ==
  ASSUME IInv, TypeOK', InText', NEW s \in Session, Forget(s) \/ Garble(s)
  PROVE  IInv'
<1> USE TurnAssumption
<1>1. TypeOK
  BY DEF IInv
<1>2. /\ UNCHANGED <<pc, found, todo, scratch, fresh, seen, view, kept, released, known>>
      /\ life' = [life EXCEPT ![s] = life[s] + 1]
      /\ \/ store' = [store EXCEPT ![s] = Empty]
         \/ store' = [store EXCEPT ![s] = Corrupt]
  BY DEF Forget, Garble, local, talk
<1>3. \A u \in Turn : Same(u)
  BY <1>2 DEF Same
<1>4. \A u \in Turn : Shown(u)' = Shown(u)
  BY <1>3, SameShows
<1>5. life'[s] = life[s] + 1 /\ life[s] \in Nat
  BY <1>1, <1>2 DEF TypeOK
<1>6. ASSUME NEW r \in Session, r # s
      PROVE  life'[r] = life[r] /\ Stored(r)' = Stored(r)
  BY <1>1, <1>2, <1>6 DEF Stored, TypeOK
<1>7. ASSUME NEW u \in Turn, NEW f \in Shown(u)
      PROVE  /\ f.life \in Nat /\ f.life <= life[SessionOf[u]]
             /\ f.life = life[SessionOf[u]] => Stored(SessionOf[u])[f.key] = f.pseudo
  <2>1. f \in Fact
    BY <1>1, ShownAreFacts
  <2> QED BY <2>1 DEF Fact, IInv, ShownIsPersisted
<1>8. ShownIsPersisted'
  <2> SUFFICES ASSUME NEW u \in Turn, NEW f \in Shown(u)
               PROVE  /\ f.life <= life'[SessionOf[u]]
                      /\ f.life = life'[SessionOf[u]] =>
                           Stored(SessionOf[u])'[f.key] = f.pseudo
    BY <1>4 DEF ShownIsPersisted
  <2>1. CASE SessionOf[u] = s
    BY <1>5, <1>7, <2>1
  <2>2. CASE SessionOf[u] # s
    BY <1>6, <1>7, <2>2
  <2> QED BY <2>1, <2>2
<1>9. ShownAgrees'
  BY <1>4 DEF IInv, ShownAgrees
<1>10. ASSUME NEW u \in Turn
       PROVE  HandledBy(u)' /\ CoveredBy(u)' /\ KnownBy(u)'
  <2>1. HandledBy(u) /\ CoveredBy(u) /\ KnownBy(u)
    BY DEF IInv
  <2>2. HandledBy(u)' /\ CoveredBy(u)'
    BY <1>2, <2>1 DEF HandledBy, CoveredBy
  <2>3. known[u].life \in Nat
    BY <1>1 DEF TypeOK
  <2>4. /\ known[u].life <= life[SessionOf[u]]
        /\ known[u].life = life[SessionOf[u]] =>
             known[u].keys \subseteq Keys(Stored(SessionOf[u]))
    BY <2>1 DEF KnownBy
  <2>5. /\ known[u].life <= life'[SessionOf[u]]
        /\ known[u].life = life'[SessionOf[u]] =>
             known[u].keys \subseteq Keys(Stored(SessionOf[u]))'
    <3>1. CASE SessionOf[u] = s
      BY <1>5, <2>3, <2>4, <3>1
    <3>2. CASE SessionOf[u] # s
      BY <1>6, <2>4, <3>2
    <3> QED BY <3>1, <3>2
  <2>6. KnownBy(u)'
    BY <1>2, <2>1, <2>5 DEF KnownBy
  <2> QED BY <2>2, <2>6
<1> QED BY <1>8, <1>9, <1>10 DEF IInv

\* Every step of a turn and every fault of the store keeps the invariant.
LEMMA NextInv == IInv /\ [Next]_vars => IInv'
<1> SUFFICES ASSUME IInv, [Next]_vars PROVE IInv'
  OBVIOUS
<1>1. TypeOK' /\ InText'
  BY NextType DEF IInv
<1>2. ASSUME NEW t \in Turn, Precall(t) \/ Postcall(t) PROVE IInv'
  BY <1>1, <1>2, QuietSteps, LoadStep, AssignStep, UseLoadedStep, PersistStep,
     PersistUnansweredStep, RewriteStep DEF Precall, Postcall
<1>3. ASSUME NEW s \in Session, Forget(s) \/ Garble(s) PROVE IInv'
  BY <1>1, <1>3, ForgetStep
<1>4. ASSUME UNCHANGED vars PROVE IInv'
  <2>1. UNCHANGED <<store, life, pc, found, todo, scratch, fresh, seen, view, kept,
                    released, known>>
    BY <1>4 DEF vars, local, talk
  <2>2. \A u \in Turn : Same(u)
    BY <2>1 DEF Same
  <2>3. \A u \in Turn : Shown(u)' = Shown(u)
    BY <2>2, SameShows
  <2>4. \A u \in Turn : Stored(SessionOf[u])' = Stored(SessionOf[u])
    BY <2>1 DEF Stored
  <2>5. ShownIsPersisted'
    BY <2>1, <2>3, <2>4 DEF IInv, ShownIsPersisted
  <2>6. ShownAgrees'
    BY <2>3 DEF IInv, ShownAgrees
  <2>7. \A u \in Turn : HandledBy(u)' /\ CoveredBy(u)'
    BY <2>1 DEF IInv, HandledBy, CoveredBy
  <2>8. \A u \in Turn : KnownBy(u)'
    BY <2>1, <2>4 DEF IInv, KnownBy
  <2> QED BY <1>1, <2>5, <2>6, <2>7, <2>8 DEF IInv
<1> QED BY <1>2, <1>3, <1>4 DEF Next, AllOver

\* The inductive invariant holds in every behaviour.
THEOREM Invariance == Spec => []IInv
BY InitInv, NextInv, PTL DEF Spec

\* Fail-closed: no detected name is left without an entry, in any number of
\* overlapping turns and under any fault, unless the session was forgotten
\* between GetMapping and AddMappings.
THEOREM DetectedNamesCovered == Spec => []NoDetectedNameInClear
<1>1. IInv => NoDetectedNameInClear
  BY DEF IInv, CoveredBy, NoDetectedNameInClear
<1> QED BY <1>1, Invariance, PTL

\* A name mapped in an earlier turn is rewritten, detected or not.
THEOREM EarlierNamesCovered == Spec => []EarlierNamesRewritten
<1>1. IInv => EarlierNamesRewritten
  <2> SUFFICES ASSUME IInv, NEW t \in Turn, pc[t] = "rewrite",
                      kept[t] = known[t].life, NEW n \in Mentions[Current(t)],
                      NEW k \in known[t].keys, Fold[k] = Fold[n]
               PROVE  HasKey(view[t], n)
    BY DEF EarlierNamesRewritten
  <2>1. k \in Keys(view[t])
    BY DEF IInv, KnownBy
  <2> QED BY <2>1 DEF HasKey, KeysFor
<1> QED BY <1>1, Invariance, PTL

\* Whatever the model has been shown is in the store while the session lives.
THEOREM ReleasedStaysPersisted == Spec => []ReleasedIsPersisted
<1>1. IInv => ReleasedIsPersisted
  BY DEF IInv, ShownIsPersisted, Shown, ReleasedIsPersisted
<1> QED BY <1>1, Invariance, PTL

\* One pseudonym for one entry, in every text of every turn of a lifetime.
THEOREM PseudonymsStable == Spec => []StablePseudonyms
<1>1. IInv => StablePseudonyms
  BY DEF IInv, ShownAgrees, Shown, StablePseudonyms
<1> QED BY <1>1, Invariance, PTL

-----------------------------------------------------------------------------
(* The store implements SessionMap. *)

\* The initial store is the initial abstract map.
LEMMA InitRefines == Init => Promise!Init
<1> SUFFICES ASSUME Init PROVE Promise!Init
  OBVIOUS
<1>1. \A s \in Session : Stored(s) = Empty
  BY DEF Init, Stored
<1> QED BY <1>1 DEF Init, Promise!Init, Empty

\* A step that only adds entries is a Learn or a stutter.
LEMMA GrowRefines ==
  ASSUME TypeOK, TypeOK', Grows, life' = life, NEW s \in Session,
         \A r \in Session : r # s => Stored(r)' = Stored(r)
  PROVE  Promise!Learn(s)
<1>1. \A r \in Session : Stored(r)' \in Mappings
  BY StoredIsMapping, EmptyMapping DEF TypeOK, Stored
<1>2. [r \in Session |-> Stored(r)]' \in [Session -> [Name -> Name \cup {NoName}]]
  BY <1>1 DEF Mappings
<1>3. \A r \in Session, n \in Name :
        r # s \/ Stored(r)[n] # NoName => Stored(r)'[n] = Stored(r)[n]
  BY DEF Grows
<1> QED BY <1>2, <1>3 DEF Promise!Learn

\* Every step is a step of the promise or leaves the store's promise alone.
LEMMA NextRefines == IInv /\ IInv' /\ [Next]_vars => [Promise!Next]_(Promise!smVars)
<1> SUFFICES ASSUME IInv, IInv', [Next]_vars
             PROVE  [Promise!Next]_(Promise!smVars)
  OBVIOUS
<1>1. TypeOK /\ TypeOK'
  BY DEF IInv
<1>2. ASSUME UNCHANGED <<store, life>> PROVE UNCHANGED Promise!smVars
  BY <1>2 DEF Promise!smVars, Stored
<1>3. ASSUME NEW t \in Turn, Persist(t) \/ PersistUnanswered(t)
      PROVE  Promise!Next
  <2>1. RunScript(t) /\ life' = life
    BY <1>3 DEF Persist, PersistUnanswered
  <2>2. SessionOf[t] \in Session /\ Grows
    BY <1>1, <2>1, TurnAssumption, ScriptGrows
  <2>3. \A r \in Session : r # SessionOf[t] => Stored(r)' = Stored(r)
    BY <1>1, <2>1, <2>2 DEF RunScript, Stored, TypeOK
  <2> QED BY <1>1, <2>1, <2>2, <2>3, GrowRefines DEF Promise!Next
<1>4. ASSUME NEW s \in Session, Forget(s) \/ Garble(s)
      PROVE  Promise!Next
  <2>1. /\ life' = [life EXCEPT ![s] = life[s] + 1]
        /\ \/ store' = [store EXCEPT ![s] = Empty]
           \/ store' = [store EXCEPT ![s] = Corrupt]
    BY <1>4 DEF Forget, Garble
  <2>2. \A r \in Session : Stored(r)' = IF r = s THEN Empty ELSE Stored(r)
    BY <1>1, <2>1 DEF Stored, TypeOK
  <2>3. Promise!Forget(s)
    BY <2>1, <2>2 DEF Promise!Forget, Empty
  <2> QED BY <2>3 DEF Promise!Next
<1>5. ASSUME NEW t \in Turn, Precall(t) \/ Postcall(t),
             ~Persist(t), ~PersistUnanswered(t)
      PROVE  UNCHANGED <<store, life>>
  BY <1>5 DEF Precall, Postcall, Start, SkipBlank, Detect, DetectFails, Load, LoadFails,
              AssignNext, UseLoaded, PersistFails, Rewrite, ModelAnswers, Reverse,
              ReverseUnavailable
<1>6. CASE UNCHANGED vars
  BY <1>2, <1>6 DEF vars
<1> QED BY <1>2, <1>3, <1>4, <1>5, <1>6 DEF Next, AllOver

\* Under every interleaving and fault the store only ever adds entries to a
\* session's mapping, until the session is forgotten and starts from nothing.
THEOREM StoreRefinesPromise == Spec => StoreKeepsPromise
<1>1. Init => Promise!Init
  BY InitRefines
<1>2. Spec => [][Promise!Next]_(Promise!smVars)
  BY Invariance, NextRefines, PTL DEF Spec
<1> QED BY <1>1, <1>2, PTL DEF Spec, StoreKeepsPromise, Promise!Spec

-----------------------------------------------------------------------------
(* What a step does to the mapping and to the copies assignNew works on.   *)

\* A turn at work goes on with the copies it had.
Quiet(t) ==
  pc'[t] = "assign" =>
    /\ pc[t] = "assign" /\ found'[t] = found[t]
    /\ scratch'[t] = scratch[t] /\ fresh'[t] = fresh[t]

\* No mapping changes.
StoreSame == \A s \in Session : Stored(s)' = Stored(s)

\* A turn takes a copy of its mapping.
Copies(t) ==
  /\ StoreSame
  /\ \A u \in Turn : u # t => Quiet(u)
  /\ scratch'[t] = Stored(SessionOf[t]) /\ fresh'[t] = Empty

\* A turn adds a detected name that has no key, and its parts.
Adds(t) ==
  /\ pc[t] = "assign" /\ found'[t] = found[t]
  /\ StoreSame
  /\ \A u \in Turn : u # t => Quiet(u)
  /\ \E d \in found[t] :
       /\ ~HasKey(scratch[t], d.name)
       /\ \E p \in Assign(d.kind, d.name, scratch[t], Substrings[Current(t)]) :
            LET new == Entries(d.kind, d.name, p, scratch[t])
            IN  /\ scratch'[t] = Merge(scratch[t], new)
                /\ fresh'[t] = Merge(fresh[t], new)

\* A turn's new entries are merged into its mapping.
Writes(t) ==
  /\ pc[t] = "assign"
  /\ \A u \in Turn : Quiet(u)
  /\ \A s \in Session : s # SessionOf[t] => Stored(s)' = Stored(s)
  /\ Stored(SessionOf[t])' = Merge(Stored(SessionOf[t]), fresh[t])

\* A mapping is lost.
Loses(s) ==
  /\ \A u \in Turn : Quiet(u)
  /\ \A r \in Session : r # s => Stored(r)' = Stored(r)
  /\ Stored(s)' = Empty

\* Every step is of one of these kinds.
LEMMA StepKinds ==
  ASSUME IInv, [Next]_vars
  PROVE  \/ StoreSame /\ \A u \in Turn : Quiet(u)
         \/ \E t \in Turn : Copies(t) \/ Adds(t) \/ Writes(t)
         \/ \E s \in Session : Loses(s)
<1> USE TurnAssumption
<1>1. TypeOK
  BY DEF IInv
<1>2. ASSUME UNCHANGED store PROVE StoreSame
  BY <1>2 DEF StoreSame, Stored
<1>3. ASSUME UNCHANGED <<store, pc, found, scratch, fresh>>
      PROVE  StoreSame /\ \A u \in Turn : Quiet(u)
  BY <1>2, <1>3 DEF Quiet
<1>4. ASSUME NEW t \in Turn, NEW label, label # "assign",
             pc' = [pc EXCEPT ![t] = label],
             UNCHANGED <<scratch, fresh>>,
             \A u \in Turn : u # t => found'[u] = found[u]
      PROVE  \A u \in Turn : Quiet(u)
  BY <1>1, <1>4 DEF Quiet, TypeOK
<1>5. ASSUME NEW t \in Turn, Start(t) \/ SkipBlank(t) \/ Rewrite(t)
      PROVE  StoreSame /\ \A u \in Turn : Quiet(u)
  <2>1. \E n \in {0, done[t] + 1} : pc' = [pc EXCEPT ![t] = After(t, n)]
    BY <1>5 DEF Start, SkipBlank, Rewrite, Goto
  <2>2. UNCHANGED <<store, found, scratch, fresh>>
    BY <1>5 DEF Start, SkipBlank, Rewrite, local
  <2>3. \A n : After(t, n) # "assign"
    BY DEF After
  <2> QED BY <1>2, <1>4, <2>1, <2>2, <2>3
<1>6. ASSUME NEW t \in Turn,
             \/ DetectFails(t) \/ LoadFails(t) \/ PersistFails(t) \/ ModelAnswers(t)
             \/ Reverse(t) \/ ReverseUnavailable(t) \/ UseLoaded(t)
      PROVE  StoreSame /\ \A u \in Turn : Quiet(u)
  <2>1. /\ \E label \in {"failed", "answered", "over", "rewrite"} :
             pc' = [pc EXCEPT ![t] = label]
        /\ UNCHANGED <<store, found, scratch, fresh>>
    BY <1>6 DEF DetectFails, LoadFails, PersistFails, ModelAnswers, Reverse,
                ReverseUnavailable, UseLoaded, Goto, local
  <2> QED BY <1>2, <1>4, <2>1
<1>7. ASSUME NEW t \in Turn, Detect(t)
      PROVE  StoreSame /\ \A u \in Turn : Quiet(u)
  <2>1. /\ pc' = [pc EXCEPT ![t] = "load"]
        /\ UNCHANGED <<store, scratch, fresh>>
        /\ \E best : found' = [found EXCEPT ![t] = best]
    BY <1>7 DEF Detect, Goto
  <2>2. \A u \in Turn : u # t => found'[u] = found[u]
    BY <1>1, <2>1 DEF TypeOK
  <2> QED BY <1>2, <1>4, <2>1, <2>2
<1>8. ASSUME NEW t \in Turn, Load(t)
      PROVE  (StoreSame /\ \A u \in Turn : Quiet(u)) \/ Copies(t)
  <2>1. CASE found[t] = {}
    <3>1. /\ pc' = [pc EXCEPT ![t] = "rewrite"]
          /\ UNCHANGED <<store, found, scratch, fresh>>
      BY <1>8, <2>1 DEF Load, Goto
    <3> QED BY <1>2, <1>4, <3>1
  <2>2. CASE found[t] # {}
    <3>1. /\ scratch' = [scratch EXCEPT ![t] = Stored(SessionOf[t])]
          /\ fresh' = [fresh EXCEPT ![t] = Empty]
          /\ pc' = [pc EXCEPT ![t] = "assign"]
          /\ UNCHANGED <<store, found>>
      BY <1>8, <2>2 DEF Load, Goto
    <3>2. /\ scratch'[t] = Stored(SessionOf[t]) /\ fresh'[t] = Empty
          /\ \A u \in Turn : u # t => Quiet(u)
      BY <1>1, <3>1 DEF Quiet, TypeOK
    <3> QED BY <1>2, <3>1, <3>2 DEF Copies
  <2> QED BY <2>1, <2>2
<1>9. ASSUME NEW t \in Turn, AssignNext(t)
      PROVE  (StoreSame /\ \A u \in Turn : Quiet(u)) \/ Adds(t)
  <2>1. /\ pc[t] = "assign" /\ UNCHANGED <<store, pc, found>>
        /\ todo[t] \subseteq found[t]
    BY <1>9 DEF AssignNext, IInv, HandledBy
  <2>2. PICK d \in todo[t] :
          \/ UNCHANGED <<scratch, fresh>>
          \/ /\ ~HasKey(scratch[t], d.name)
             /\ \E p \in Assign(d.kind, d.name, scratch[t], Substrings[Current(t)]) :
                  LET new == Entries(d.kind, d.name, p, scratch[t])
                  IN  /\ scratch' = [scratch EXCEPT ![t] = Merge(@, new)]
                      /\ fresh' = [fresh EXCEPT ![t] = Merge(@, new)]
    BY <1>9 DEF AssignNext
  <2>3. CASE UNCHANGED <<scratch, fresh>>
    BY <1>3, <2>1, <2>3
  <2>4. ASSUME ~HasKey(scratch[t], d.name),
               NEW p \in Assign(d.kind, d.name, scratch[t], Substrings[Current(t)]),
               scratch' = [scratch EXCEPT ![t] =
                             Merge(@, Entries(d.kind, d.name, p, scratch[t]))],
               fresh' = [fresh EXCEPT ![t] =
                             Merge(@, Entries(d.kind, d.name, p, scratch[t]))]
        PROVE  Adds(t)
    <3>1. /\ scratch'[t] = Merge(scratch[t], Entries(d.kind, d.name, p, scratch[t]))
          /\ fresh'[t] = Merge(fresh[t], Entries(d.kind, d.name, p, scratch[t]))
          /\ \A u \in Turn : u # t => scratch'[u] = scratch[u] /\ fresh'[u] = fresh[u]
      BY <1>1, <2>4 DEF TypeOK
    <3>2. \A u \in Turn : u # t => Quiet(u)
      BY <2>1, <3>1 DEF Quiet
    <3>3. d \in found[t] /\ StoreSame
      BY <1>2, <2>1
    <3> QED BY <2>1, <2>4, <3>1, <3>2, <3>3 DEF Adds
  <2> QED BY <2>2, <2>3, <2>4
<1>10. ASSUME NEW t \in Turn, Persist(t) \/ PersistUnanswered(t)
       PROVE  Writes(t)
  <2>1. RunScript(t) /\ pc[t] = "assign"
    BY <1>10 DEF Persist, PersistUnanswered, CanPersist
  <2>2. Stored(SessionOf[t])' = Merge(Stored(SessionOf[t]), fresh[t])
    BY <1>1, <2>1, ScriptGrows
  <2>3. \A s \in Session : s # SessionOf[t] => Stored(s)' = Stored(s)
    BY <1>1, <2>1 DEF RunScript, Stored, TypeOK
  <2>4. CASE Persist(t)
    <3>1. pc' = [pc EXCEPT ![t] = "rewrite"] /\ UNCHANGED <<found, scratch, fresh>>
      BY <2>4 DEF Persist, Goto
    <3>2. \A u \in Turn : Quiet(u)
      BY <1>4, <3>1
    <3> QED BY <2>1, <2>2, <2>3, <3>2 DEF Writes
  <2>5. CASE PersistUnanswered(t)
    <3>1. UNCHANGED <<pc, found, scratch, fresh>>
      BY <2>5 DEF PersistUnanswered, local
    <3>2. \A u \in Turn : Quiet(u)
      BY <3>1 DEF Quiet
    <3> QED BY <2>1, <2>2, <2>3, <3>2 DEF Writes
  <2> QED BY <1>10, <2>4, <2>5
<1>11. ASSUME NEW s \in Session, Forget(s) \/ Garble(s)
       PROVE  Loses(s)
  <2>1. /\ \/ store' = [store EXCEPT ![s] = Empty]
           \/ store' = [store EXCEPT ![s] = Corrupt]
        /\ UNCHANGED <<pc, found, scratch, fresh>>
    BY <1>11 DEF Forget, Garble, local
  <2>2. /\ \A r \in Session : r # s => Stored(r)' = Stored(r)
        /\ Stored(s)' = Empty
    BY <1>1, <2>1, EmptyMapping, CorruptAssumption DEF Stored, TypeOK
  <2>3. \A u \in Turn : Quiet(u)
    BY <2>1 DEF Quiet
  <2> QED BY <2>2, <2>3 DEF Loses
<1>12. CASE UNCHANGED vars
  BY <1>3, <1>12 DEF vars, local
<1> QED BY <1>5, <1>6, <1>7, <1>8, <1>9, <1>10, <1>11, <1>12
        DEF Next, Precall, Postcall, AllOver

\* What assignNew adds is a mapping, and a name of the entity type's own series.
LEMMA AddedFacts ==
  ASSUME IInv, NEW t \in Turn, NEW d \in found[t],
         NEW p \in Assign(d.kind, d.name, scratch[t], Substrings[Current(t)])
  PROVE  /\ d.kind \in Kind /\ d.name \in Name /\ p \in Name
         /\ scratch[t] \in Mappings /\ fresh[t] \in Mappings
         /\ p \in PseudonymsOf(d.kind) /\ p \notin Used(scratch[t])
         /\ Entries(d.kind, d.name, p, scratch[t]) \in Mappings
         /\ Entries(d.kind, d.name, p, scratch[t])[d.name] = p
<1>1. /\ d.kind \in Kind /\ d.name \in Name
      /\ scratch[t] \in Mappings /\ fresh[t] \in Mappings
  BY DEF IInv, TypeOK, Detection
<1>2. p \in Name /\ p \in PseudonymsOf(d.kind) /\ p \notin Used(scratch[t])
  BY <1>1, AssignIsName, AssignFacts, AssignFree
<1> QED BY <1>1, <1>2, EntriesFacts

-----------------------------------------------------------------------------
(* Where a key comes from. *)

\* The key is a string detected in the turn's text, or a word of one.
Detected(t, k) ==
  \E d \in found[t] : k = d.name \/ \E i \in DOMAIN Fields[d.name] : k = Fields[d.name][i]

\* assignNew only has new keys of the text it works on.
FreshDetected ==
  \A t \in Turn : pc[t] = "assign" => \A k \in Keys(fresh[t]) : Detected(t, k)

\* New entries are only minted for what the detector reported in the text.
LEMMA NextDetected == IInv /\ FreshDetected /\ [Next]_vars => FreshDetected'
<1> SUFFICES ASSUME IInv, FreshDetected, [Next]_vars,
                    NEW u \in Turn, pc'[u] = "assign",
                    NEW k \in Keys(fresh[u]')
             PROVE  Detected(u, k)'
  BY DEF FreshDetected
<1>1. ASSUME Quiet(u) PROVE Detected(u, k)'
  BY <1>1 DEF Quiet, FreshDetected, Detected
<1>2. ASSUME Copies(u) PROVE FALSE
  <2>1. k \in Keys(Empty)
    BY <1>2 DEF Copies
  <2> QED BY <2>1, EmptyMapping DEF Keys
<1>3. ASSUME Adds(u) PROVE Detected(u, k)'
  <2>1. found'[u] = found[u] /\ pc[u] = "assign"
    BY <1>3 DEF Adds
  <2>2. PICK d \in found[u] :
          \E p \in Assign(d.kind, d.name, scratch[u], Substrings[Current(u)]) :
            fresh'[u] = Merge(fresh[u], Entries(d.kind, d.name, p, scratch[u]))
    BY <1>3 DEF Adds
  <2>3. PICK p \in Assign(d.kind, d.name, scratch[u], Substrings[Current(u)]) :
          fresh'[u] = Merge(fresh[u], Entries(d.kind, d.name, p, scratch[u]))
    BY <2>2
  <2> DEFINE new == Entries(d.kind, d.name, p, scratch[u])
  <2>4. d.name \in Name /\ p \in Name /\ fresh[u] \in Mappings /\ new \in Mappings
    BY AddedFacts
  <2>5. k \in Keys(fresh[u]) \/ k \in Keys(new)
    BY <2>3, <2>4, MergeKeys
  <2>6. CASE k \in Keys(fresh[u])
    BY <2>1, <2>6 DEF FreshDetected, Detected
  <2>7. CASE k \in Keys(new) /\ k # d.name
    <3>1. PICK pair \in Parts(d.kind, d.name, p, scratch[u]) : pair[1] = k
      BY <2>4, <2>7, EntriesKeys
    <3> DEFINE words == Fields[d.name]
    <3>2. /\ words \in Seq(Name) /\ Len(words) >= 2
          /\ k = words[1] \/ k = words[Len(words)]
      BY <2>4, <3>1, PartsFacts, FieldsAssumption
    <3>3. 1 \in DOMAIN words /\ Len(words) \in DOMAIN words
      BY <3>2
    <3>4. \E i \in DOMAIN words : k = words[i]
      BY <3>2, <3>3
    <3> QED BY <2>1, <3>4 DEF Detected
  <2>8. CASE k = d.name
    BY <2>1, <2>8 DEF Detected
  <2> QED BY <2>5, <2>6, <2>7, <2>8
<1> QED BY <1>1, <1>2, <1>3, StepKinds DEF Copies, Adds, Writes, Loses

\* A name enters the store, erased before or not, only with the entries minted
\* for what was detected in the text at work: under every interleaving, lost
\* reply and repeated script of AddMappings.
THEOREM OnlyMintedNamesEnter == Spec => OnlyMintedEnters
<1> DEFINE Comes ==
      \A s \in Session : \A k \in Keys(Stored(s)') \ Keys(Stored(s)) :
        \E t \in Turn : /\ SessionOf[t] = s /\ pc[t] = "assign"
                        /\ Stored(s)'[k] = fresh[t][k]
                        /\ \E d \in found[t] :
                             k = d.name \/ \E i \in DOMAIN Fields[d.name] : k = Fields[d.name][i]
<1>1. Init => FreshDetected
  BY DEF Init, FreshDetected
<1>2. IInv /\ FreshDetected /\ [Next]_vars => [Comes]_vars
  <2> SUFFICES ASSUME IInv, FreshDetected, [Next]_vars,
                      NEW s \in Session, NEW k \in Keys(Stored(s)'), k \notin Keys(Stored(s))
               PROVE  \E t \in Turn : /\ SessionOf[t] = s /\ pc[t] = "assign"
                                      /\ Stored(s)'[k] = fresh[t][k]
                                      /\ Detected(t, k)
    BY DEF Detected
  <2>1. Stored(s)' # Stored(s)
    OBVIOUS
  <2>2. ~Loses(s)
    BY EmptyWithin DEF Loses
  <2>3. PICK t \in Turn : Writes(t) /\ SessionOf[t] = s
    BY <2>1, <2>2, StepKinds DEF StoreSame, Copies, Adds, Writes, Loses
  <2>4. Stored(s) \in Mappings /\ fresh[t] \in Mappings
    BY StoredIsMapping DEF IInv, TypeOK
  <2>5. pc[t] = "assign" /\ Stored(s)' = Merge(Stored(s), fresh[t])
    BY <2>3 DEF Writes
  <2>6. k \in Keys(fresh[t])
    BY <2>4, <2>5, MergeKeys
  <2>7. k \in Name /\ Stored(s)[k] = NoName
    BY DEF Keys
  <2>8. Stored(s)'[k] = fresh[t][k]
    BY <2>4, <2>5, <2>7, MergeFacts
  <2> QED BY <2>3, <2>5, <2>6, <2>8 DEF FreshDetected
<1>3. Spec => []FreshDetected
  BY <1>1, Invariance, NextDetected, PTL DEF Spec
<1> QED BY <1>2, <1>3, Invariance, PTL DEF Spec, OnlyMintedEnters

-----------------------------------------------------------------------------
(* Turns that wait for one another.  A turn is at work from its pre-call   *)
(* request to the end of its post-call one.                                *)

Busy(t) == pc[t] \notin {"idle", "over", "failed"}

\* At most one turn of a session is at work.
OneAtWork ==
  \A t, u \in Turn :
    SessionOf[t] = SessionOf[u] /\ Busy(t) /\ Busy(u) => t = u

\* Of turns that wait for one another one is at work.
LEMMA NextOneAtWork ==
  ASSUME Serial, TypeOK, OneAtWork, [Next]_vars
  PROVE  OneAtWork'
<1>1. ASSUME UNCHANGED pc PROVE OneAtWork'
  BY <1>1 DEF OneAtWork, Busy
<1>2. ASSUME NEW t \in Turn, Start(t) PROVE OneAtWork'
  <2>1. /\ \A u \in Turn : SessionOf[u] = SessionOf[t] => ~Busy(u)
        /\ pc' = [pc EXCEPT ![t] = After(t, 0)]
    BY <1>2 DEF Start, Goto, Busy
  <2>2. \A u \in Turn : u # t => pc'[u] = pc[u]
    BY <2>1 DEF TypeOK
  <2> QED BY <2>1, <2>2 DEF OneAtWork, Busy
<1>3. ASSUME NEW t \in Turn, Busy(t), \A u \in Turn : u # t => pc'[u] = pc[u]
      PROVE  OneAtWork'
  BY <1>3 DEF OneAtWork, Busy
<1>4. ASSUME NEW t \in Turn, Precall(t) \/ Postcall(t), ~Start(t)
      PROVE  OneAtWork'
  <2>1. Busy(t)
    BY <1>4 DEF Precall, Postcall, SkipBlank, Detect, DetectFails, Load, LoadFails,
                AssignNext, UseLoaded, Persist, PersistUnanswered, PersistFails, CanPersist,
                Rewrite, ModelAnswers, Reverse, ReverseUnavailable, Busy
  <2>2. pc' = pc \/ \E label : pc' = [pc EXCEPT ![t] = label]
    BY <1>4 DEF Precall, Postcall, SkipBlank, Detect, DetectFails, Load, LoadFails,
                AssignNext, UseLoaded, Persist, PersistUnanswered, PersistFails,
                Rewrite, ModelAnswers, Reverse, ReverseUnavailable, Goto
  <2>3. \A u \in Turn : u # t => pc'[u] = pc[u]
    BY <2>2 DEF TypeOK
  <2> QED BY <1>3, <2>1, <2>3
<1>5. ASSUME NEW s \in Session, Forget(s) \/ Garble(s) PROVE OneAtWork'
  BY <1>1, <1>5 DEF Forget, Garble
<1> QED BY <1>1, <1>2, <1>4, <1>5 DEF Next, AllOver, vars

\* Mappings have one key for a name, and the copy a turn works on goes beyond
\* its mapping by the new entries.
CopiesAhead ==
  /\ \A s \in Session : OneKey(Stored(s))
  /\ \A t \in Turn : pc[t] = "assign" =>
       /\ OneKey(scratch[t])
       /\ Within(Stored(SessionOf[t]), scratch[t])
       /\ Within(fresh[t], scratch[t])

\* The entries a turn adds to its copies.
LEMMA AddedAhead ==
  ASSUME IInv, CopiesAhead, NEW t \in Turn, pc[t] = "assign", NEW d \in found[t],
         ~HasKey(scratch[t], d.name),
         NEW p \in Assign(d.kind, d.name, scratch[t], Substrings[Current(t)]),
         NEW new, new = Entries(d.kind, d.name, p, scratch[t])
  PROVE  LET copy == Merge(scratch[t], new)
         IN  /\ Within(scratch[t], copy) /\ Within(new, copy)
             /\ Keys(copy) = Keys(scratch[t]) \cup Keys(new)
             /\ OneKey(copy)
             /\ Within(Stored(SessionOf[t]), copy)
             /\ Within(fresh[t], copy)
             /\ Within(Merge(fresh[t], new), copy)
<1> DEFINE copy == Merge(scratch[t], new)
<1>1. /\ d.name \in Name /\ p \in Name /\ new \in Mappings
      /\ scratch[t] \in Mappings /\ fresh[t] \in Mappings
  BY AddedFacts
<1>2. (\A k \in Keys(new) : ~HasKey(scratch[t], k)) /\ OneKey(new)
  BY <1>1, EntriesApart
<1>3. /\ OneKey(scratch[t]) /\ Within(Stored(SessionOf[t]), scratch[t])
      /\ Within(fresh[t], scratch[t])
  BY DEF CopiesAhead
<1>4. /\ Within(scratch[t], copy) /\ Within(new, copy)
      /\ Keys(copy) = Keys(scratch[t]) \cup Keys(new)
      /\ OneKey(copy)
  BY <1>1, <1>2, <1>3, MergeApart
<1> HIDE DEF copy
<1>5. Within(Stored(SessionOf[t]), copy) /\ Within(fresh[t], copy)
  BY <1>3, <1>4, WithinKeys DEF Within
<1>6. Within(Merge(fresh[t], new), copy)
  BY <1>1, <1>4, <1>5, MergeWithin
<1> QED BY <1>4, <1>5, <1>6 DEF copy

\* The working copies hold what the store does, and the new entries.
LEMMA NextCopiesAhead ==
  ASSUME IInv, OneAtWork, CopiesAhead, [Next]_vars
  PROVE  CopiesAhead'
<1> USE TurnAssumption
<1> DEFINE Ahead(t) ==
      pc[t] = "assign" =>
        /\ OneKey(scratch[t])
        /\ Within(Stored(SessionOf[t]), scratch[t])
        /\ Within(fresh[t], scratch[t])
<1>1. ASSUME NEW t \in Turn, Quiet(t), Stored(SessionOf[t])' = Stored(SessionOf[t])
      PROVE  Ahead(t)'
  BY <1>1 DEF Quiet, CopiesAhead
<1>2. ASSUME StoreSame PROVE \A s \in Session : OneKey(Stored(s))'
  BY <1>2 DEF StoreSame, CopiesAhead
<1>3. ASSUME StoreSame, \A u \in Turn : Quiet(u) PROVE CopiesAhead'
  BY <1>1, <1>2, <1>3 DEF StoreSame, CopiesAhead
<1>4. ASSUME NEW t \in Turn, Copies(t) PROVE CopiesAhead'
  <2>1. Ahead(t)'
    BY <1>4, EmptyWithin DEF Copies, StoreSame, CopiesAhead, Within
  <2> QED BY <1>1, <1>2, <1>4, <2>1 DEF Copies, StoreSame, CopiesAhead
<1>5. ASSUME NEW t \in Turn, Adds(t) PROVE CopiesAhead'
  <2>1. PICK d \in found[t] :
          /\ ~HasKey(scratch[t], d.name)
          /\ \E p \in Assign(d.kind, d.name, scratch[t], Substrings[Current(t)]) :
               LET new == Entries(d.kind, d.name, p, scratch[t])
               IN  /\ scratch'[t] = Merge(scratch[t], new)
                   /\ fresh'[t] = Merge(fresh[t], new)
    BY <1>5 DEF Adds
  <2>2. PICK p \in Assign(d.kind, d.name, scratch[t], Substrings[Current(t)]) :
          LET new == Entries(d.kind, d.name, p, scratch[t])
          IN  /\ scratch'[t] = Merge(scratch[t], new)
              /\ fresh'[t] = Merge(fresh[t], new)
    BY <2>1
  <2>3. Ahead(t)'
    BY <1>5, <2>1, <2>2, AddedAhead DEF Adds, StoreSame
  <2> QED BY <1>1, <1>2, <1>5, <2>3 DEF Adds, StoreSame, CopiesAhead
<1>6. ASSUME NEW t \in Turn, Writes(t) PROVE CopiesAhead'
  <2> DEFINE s == SessionOf[t]
  <2>1. /\ pc[t] = "assign" /\ Stored(s)' = Merge(Stored(s), fresh[t])
        /\ \A u \in Turn : Quiet(u)
        /\ \A r \in Session : r # s => Stored(r)' = Stored(r)
    BY <1>6 DEF Writes
  <2>2. Stored(s) \in Mappings /\ fresh[t] \in Mappings
    BY StoredIsMapping DEF IInv, TypeOK
  <2>3. OneKey(scratch[t]) /\ Within(fresh[t], scratch[t]) /\ Within(Stored(s), scratch[t])
    BY <2>1 DEF CopiesAhead
  <2>4. Within(Stored(s)', scratch[t])
    BY <2>1, <2>2, <2>3, MergeWithin
  <2>5. OneKey(Stored(s)')
    BY <2>3, <2>4, WithinKeeps
  <2>6. Ahead(t)'
    BY <2>1, <2>3, <2>4 DEF Quiet
  <2>7. ASSUME NEW u \in Turn, u # t PROVE Ahead(u)'
    <3>1. CASE SessionOf[u] = s
      BY <2>1, <2>7, <3>1 DEF OneAtWork, Busy, Quiet
    <3>2. CASE SessionOf[u] # s
      BY <1>1, <2>1, <3>2
    <3> QED BY <3>1, <3>2
  <2>8. \A r \in Session : OneKey(Stored(r))'
    BY <2>1, <2>5 DEF CopiesAhead
  <2> QED BY <2>6, <2>7, <2>8 DEF CopiesAhead
<1>7. ASSUME NEW s \in Session, Loses(s) PROVE CopiesAhead'
  <2>1. \A r \in Session : OneKey(Stored(r))'
    BY <1>7, EmptyWithin DEF Loses, CopiesAhead, OneKey
  <2>2. ASSUME NEW u \in Turn PROVE Ahead(u)'
    <3>1. CASE SessionOf[u] = s
      BY <1>7, <3>1, EmptyWithin DEF Loses, Quiet, CopiesAhead
    <3>2. CASE SessionOf[u] # s
      BY <1>1, <1>7, <3>2 DEF Loses
    <3> QED BY <3>1, <3>2
  <2> QED BY <2>1, <2>2 DEF CopiesAhead
<1> QED BY <1>3, <1>4, <1>5, <1>6, <1>7, StepKinds

\* Nobody is at work in the beginning.
LEMMA InitAhead == Init => OneAtWork /\ CopiesAhead
<1> SUFFICES ASSUME Init PROVE OneAtWork /\ CopiesAhead
  OBVIOUS
<1>1. \A s \in Session : Stored(s) = Empty
  BY DEF Init, Stored
<1>2. OneAtWork
  BY DEF Init, OneAtWork, Busy
<1>3. \A s \in Session : OneKey(Stored(s))
  BY <1>1, EmptyWithin DEF OneKey
<1> QED BY <1>2, <1>3 DEF Init, CopiesAhead

\* The three invariants hold for turns that wait for one another.
LEMMA SerialInvariance ==
  ASSUME Serial
  PROVE  Spec => [](IInv /\ OneAtWork /\ CopiesAhead)
<1>1. IInv /\ OneAtWork /\ CopiesAhead /\ [Next]_vars => (OneAtWork /\ CopiesAhead)'
  <2>1. IInv => TypeOK
    BY DEF IInv
  <2> QED BY <2>1, NextOneAtWork, NextCopiesAhead
<1> QED BY <1>1, InitAhead, Invariance, PTL DEF Spec

\* Without overlapping turns a name has one key, however it is spelled, under
\* every fault of the store.
THEOREM OneKeyForAName ==
  ASSUME Serial
  PROVE  Spec => []OneKeyPerName
<1>1. CopiesAhead => OneKeyPerName
  BY DEF CopiesAhead, OneKeyPerName, OneKey
<1> QED BY <1>1, SerialInvariance, PTL

-----------------------------------------------------------------------------
(* Pseudonyms are told apart.                                              *)

\* Each pseudonym has one key in the mappings and in the copies, and every
\* word of a pseudonym is there with the pseudonym it belongs to.
PseudonymsOwned ==
  /\ \A s \in Session : Distinct(Stored(s)) /\ Owned(Stored(s))
  /\ \A t \in Turn : pc[t] = "assign" =>
       Distinct(scratch[t]) /\ Owned(scratch[t]) /\ Owned(fresh[t])

\* The copies with a new entity.
LEMMA AddedOwned ==
  ASSUME PseudonymsApart, IInv, CopiesAhead, PseudonymsOwned,
         NEW t \in Turn, pc[t] = "assign", NEW d \in found[t],
         ~HasKey(scratch[t], d.name),
         NEW p \in Assign(d.kind, d.name, scratch[t], Substrings[Current(t)]),
         NEW new, new = Entries(d.kind, d.name, p, scratch[t])
  PROVE  /\ Distinct(Merge(scratch[t], new))
         /\ Owned(Merge(scratch[t], new))
         /\ Owned(Merge(fresh[t], new))
<1>1. /\ d.kind \in Kind /\ d.name \in Name
      /\ scratch[t] \in Mappings /\ fresh[t] \in Mappings /\ new \in Mappings
  BY AddedFacts
<1>2. /\ Within(new, Merge(scratch[t], new)) /\ Within(fresh[t], Merge(scratch[t], new))
  BY AddedAhead
<1>3. Distinct(scratch[t]) /\ Owned(scratch[t]) /\ Owned(fresh[t])
  BY DEF PseudonymsOwned
<1>4. PICK parts \in SUBSET Parts(d.kind, d.name, p, scratch[t]) :
        new = WithParts(d.name, p, parts)
  BY EntriesAreParts
<1>5. Distinct(Merge(scratch[t], new)) /\ Owned(Merge(scratch[t], new)) /\ Owned(new)
  BY <1>1, <1>3, <1>4, NewEntity
<1>6. Owned(Merge(fresh[t], new))
  BY <1>1, <1>2, <1>3, <1>5, MergeOwned
<1> QED BY <1>5, <1>6

\* Every step of a turn keeps the pseudonyms distinct, in the store and in the
\* copies it is minted in.
LEMMA NextOwned ==
  ASSUME PseudonymsApart, IInv, OneAtWork, CopiesAhead, PseudonymsOwned, [Next]_vars
  PROVE  PseudonymsOwned'
<1> USE TurnAssumption
<1> DEFINE Apart(t) == pc[t] = "assign" =>
      Distinct(scratch[t]) /\ Owned(scratch[t]) /\ Owned(fresh[t])
<1>1. ASSUME NEW t \in Turn, Quiet(t) PROVE Apart(t)'
  BY <1>1 DEF Quiet, PseudonymsOwned
<1>2. ASSUME StoreSame
      PROVE  \A s \in Session : Distinct(Stored(s))' /\ Owned(Stored(s))'
  BY <1>2 DEF StoreSame, PseudonymsOwned
<1>3. ASSUME StoreSame, \A u \in Turn : Quiet(u) PROVE PseudonymsOwned'
  BY <1>1, <1>2, <1>3 DEF PseudonymsOwned
<1>4. ASSUME NEW t \in Turn, Copies(t) PROVE PseudonymsOwned'
  <2>1. Apart(t)'
    BY <1>4, EmptyOwned DEF Copies, PseudonymsOwned
  <2> QED BY <1>1, <1>2, <1>4, <2>1 DEF Copies, PseudonymsOwned
<1>5. ASSUME NEW t \in Turn, Adds(t) PROVE PseudonymsOwned'
  <2>1. PICK d \in found[t] :
          /\ ~HasKey(scratch[t], d.name)
          /\ \E p \in Assign(d.kind, d.name, scratch[t], Substrings[Current(t)]) :
               LET new == Entries(d.kind, d.name, p, scratch[t])
               IN  /\ scratch'[t] = Merge(scratch[t], new)
                   /\ fresh'[t] = Merge(fresh[t], new)
    BY <1>5 DEF Adds
  <2>2. Apart(t)'
    BY <1>5, <2>1, AddedOwned DEF Adds
  <2> QED BY <1>1, <1>2, <1>5, <2>2 DEF Adds, PseudonymsOwned
<1>6. ASSUME NEW t \in Turn, Writes(t) PROVE PseudonymsOwned'
  <2> DEFINE s == SessionOf[t]
  <2>1. /\ pc[t] = "assign" /\ Stored(s)' = Merge(Stored(s), fresh[t])
        /\ \A u \in Turn : Quiet(u)
        /\ \A r \in Session : r # s => Stored(r)' = Stored(r)
    BY <1>6 DEF Writes
  <2>2. Stored(s) \in Mappings /\ fresh[t] \in Mappings
    BY StoredIsMapping DEF IInv, TypeOK
  <2>3. Within(fresh[t], scratch[t]) /\ Within(Stored(s), scratch[t])
    BY <2>1 DEF CopiesAhead
  <2>4. Distinct(scratch[t]) /\ Owned(fresh[t]) /\ Owned(Stored(s))
    BY <2>1 DEF PseudonymsOwned
  <2>5. Distinct(Stored(s)') /\ Owned(Stored(s)')
    BY <2>1, <2>2, <2>3, <2>4, MergeWithin, WithinKeeps, MergeOwned
  <2>6. \A r \in Session : Distinct(Stored(r))' /\ Owned(Stored(r))'
    BY <2>1, <2>5 DEF PseudonymsOwned
  <2> QED BY <1>1, <2>1, <2>6 DEF PseudonymsOwned
<1>7. ASSUME NEW s \in Session, Loses(s) PROVE PseudonymsOwned'
  <2>1. \A r \in Session : Distinct(Stored(r))' /\ Owned(Stored(r))'
    BY <1>7, EmptyOwned DEF Loses, PseudonymsOwned
  <2> QED BY <1>1, <1>7, <2>1 DEF Loses, PseudonymsOwned
<1> QED BY <1>3, <1>4, <1>5, <1>6, <1>7, StepKinds

\* Pseudonyms stay distinct while turns wait for one another.
LEMMA OwnedInvariance ==
  ASSUME Serial, PseudonymsApart
  PROVE  Spec => []PseudonymsOwned
<1>1. Init => PseudonymsOwned
  <2> SUFFICES ASSUME Init PROVE PseudonymsOwned
    OBVIOUS
  <2>1. \A s \in Session : Stored(s) = Empty
    BY DEF Init, Stored
  <2> QED BY <2>1, EmptyOwned DEF Init, PseudonymsOwned
<1>2. IInv /\ OneAtWork /\ CopiesAhead /\ PseudonymsOwned /\ [Next]_vars => PseudonymsOwned'
  BY NextOwned
<1> QED BY <1>1, <1>2, SerialInvariance, PTL DEF Spec

\* Without overlapping turns no two names share a pseudonym, first and last
\* names included, under every fault of the store and in every lifetime.
THEOREM OneNameForAPseudonym ==
  ASSUME Serial, PseudonymsApart
  PROVE  Spec => []DistinctPseudonyms
<1>1. PseudonymsOwned => DistinctPseudonyms
  BY DEF PseudonymsOwned, DistinctPseudonyms, Distinct
<1> QED BY <1>1, OwnedInvariance, PTL

-----------------------------------------------------------------------------
(* The answer.                                                             *)

\* The store is not lost while a turn waits for the model.
NothingLost == "forget" \notin Faults /\ "corrupt" \notin Faults

\* The answer repeats what the model was shown, and what it is restored to is
\* the real value behind that.
AnswersShown ==
  /\ \A s \in Session : life[s] = 0
  /\ \A t \in Turn :
       /\ pc[t] \in {"answered", "over"} =>
            answer[t] = NoName \/ \E f \in released[t] : f.pseudo = answer[t]
       /\ pc[t] = "over" /\ restored[t] # answer[t] =>
            \E f \in released[t] : f.key = restored[t] /\ f.pseudo = answer[t]

\* Every step keeps what was shown restorable: the store still has it when the
\* answer comes back.
LEMMA NextAnswers ==
  ASSUME NothingLost, IInv, PseudonymsOwned, AnswersShown, [Next]_vars
  PROVE  AnswersShown'
<1> USE TurnAssumption
<1>1. TypeOK
  BY DEF IInv
<1> DEFINE Answered(t) ==
      /\ pc[t] \in {"answered", "over"} =>
           answer[t] = NoName \/ \E f \in released[t] : f.pseudo = answer[t]
      /\ pc[t] = "over" /\ restored[t] # answer[t] =>
           \E f \in released[t] : f.key = restored[t] /\ f.pseudo = answer[t]
<1>2. ASSUME NEW t \in Turn, UNCHANGED life, Answered(t)',
             \A u \in Turn : u # t =>
               /\ pc'[u] = pc[u] /\ answer'[u] = answer[u]
               /\ released'[u] = released[u] /\ restored'[u] = restored[u]
      PROVE  AnswersShown'
  <2>1. ASSUME NEW u \in Turn, u # t PROVE Answered(u)'
    BY <1>2, <2>1 DEF AnswersShown
  <2> QED BY <1>2, <2>1 DEF AnswersShown
<1>3. ASSUME UNCHANGED <<life, pc, released, answer, restored>> PROVE AnswersShown'
  BY <1>3 DEF AnswersShown
<1>4. ASSUME NEW t \in Turn, Precall(t) PROVE AnswersShown'
  <2>1. pc' = pc \/ \E label \in {"detect", "sent", "load", "assign", "rewrite", "failed"} :
                      pc' = [pc EXCEPT ![t] = label]
    BY <1>4 DEF Precall, Start, SkipBlank, Detect, DetectFails, Load, LoadFails, AssignNext,
                UseLoaded, Persist, PersistUnanswered, PersistFails, Rewrite, Goto, After
  <2>2. /\ UNCHANGED <<life, answer, restored>>
        /\ released' = released \/ \E r : released' = [released EXCEPT ![t] = r]
    BY <1>4 DEF Precall, Start, SkipBlank, Detect, DetectFails, Load, LoadFails, AssignNext,
                UseLoaded, Persist, PersistUnanswered, PersistFails, Rewrite, local, talk
  <2>3. pc[t] \notin {"answered", "over"}
    BY <1>4 DEF Precall, Start, SkipBlank, Detect, DetectFails, Load, LoadFails, AssignNext,
                UseLoaded, Persist, PersistUnanswered, PersistFails, CanPersist, Rewrite
  <2>4. pc'[t] \notin {"answered", "over"}
    BY <1>1, <2>1, <2>3 DEF TypeOK
  <2>5. \A u \in Turn : u # t =>
          /\ pc'[u] = pc[u] /\ answer'[u] = answer[u]
          /\ released'[u] = released[u] /\ restored'[u] = restored[u]
    BY <1>1, <2>1, <2>2 DEF TypeOK
  <2> QED BY <1>2, <2>2, <2>4, <2>5
<1>5. ASSUME NEW t \in Turn, ModelAnswers(t) PROVE AnswersShown'
  <2>1. PICK p \in {f.pseudo : f \in released[t]} \cup {NoName} :
          answer' = [answer EXCEPT ![t] = p]
    BY <1>5 DEF ModelAnswers
  <2>2. /\ pc' = [pc EXCEPT ![t] = "answered"]
        /\ UNCHANGED <<life, released, restored>>
    BY <1>5 DEF ModelAnswers, Goto
  <2>3. /\ pc'[t] = "answered" /\ answer'[t] = p
        /\ \A u \in Turn : u # t => pc'[u] = pc[u] /\ answer'[u] = answer[u]
    BY <1>1, <2>1, <2>2 DEF TypeOK
  <2>4. Answered(t)'
    BY <2>1, <2>2, <2>3
  <2> QED BY <1>2, <2>2, <2>3, <2>4
<1>6. ASSUME NEW t \in Turn, Reverse(t) \/ ReverseUnavailable(t) PROVE AnswersShown'
  <2> DEFINE s == SessionOf[t]
             reals == Inverse(Stored(s), answer[t])
  <2>1. /\ pc[t] = "answered" /\ pc' = [pc EXCEPT ![t] = "over"]
        /\ UNCHANGED <<life, released, answer>>
        /\ \E r \in {answer[t]} \cup (IF answer[t] = NoName THEN {} ELSE reals) :
             restored' = [restored EXCEPT ![t] = r]
    BY <1>6 DEF Reverse, ReverseUnavailable, Goto, local
  <2>2. PICK r \in {answer[t]} \cup (IF answer[t] = NoName THEN {} ELSE reals) :
          restored' = [restored EXCEPT ![t] = r]
    BY <2>1
  <2>3. /\ pc'[t] = "over" /\ restored'[t] = r
        /\ \A u \in Turn : u # t => pc'[u] = pc[u] /\ restored'[u] = restored[u]
    BY <1>1, <2>1, <2>2 DEF TypeOK
  <2>4. ASSUME r # answer[t]
        PROVE  \E f \in released[t] : f.key = r /\ f.pseudo = answer[t]
    <3>1. answer[t] # NoName /\ r \in reals
      BY <2>4
    <3>2. PICK f \in released[t] : f.pseudo = answer[t]
      BY <2>1, <3>1 DEF AnswersShown
    <3>3. f \in Fact /\ f \in Shown(t)
      BY <1>1 DEF TypeOK, Shown
    <3>4. life[s] = 0 /\ f.life <= life[s] /\ f.life \in Nat
      BY <3>3 DEF IInv, ShownIsPersisted, AnswersShown, Fact
    <3>5. f.life = life[s]
      BY <3>4
    <3>6. Stored(s)[f.key] = answer[t] /\ f.key \in Name
      BY <3>2, <3>3, <3>5 DEF IInv, ShownIsPersisted, Fact
    <3>7. f.key \in Keys(Stored(s))
      BY <3>1, <3>6 DEF Keys
    <3>8. r \in Keys(Stored(s)) /\ Fold[Stored(s)[r]] = Fold[answer[t]]
      BY <3>1 DEF Inverse
    <3>9. f.key = r
      BY <3>6, <3>7, <3>8 DEF PseudonymsOwned, Distinct
    <3> QED BY <3>2, <3>9
  <2>5. answer[t] = NoName \/ \E f \in released[t] : f.pseudo = answer[t]
    BY <2>1 DEF AnswersShown
  <2>6. Answered(t)'
    BY <2>1, <2>3, <2>4, <2>5
  <2> QED BY <1>2, <2>1, <2>3, <2>6
<1>7. ASSUME NEW s \in Session, Forget(s) \/ Garble(s) PROVE FALSE
  BY <1>7 DEF Forget, Garble, NothingLost
<1> QED BY <1>3, <1>4, <1>5, <1>6, <1>7 DEF Next, Postcall, AllOver, vars, talk

\* Without overlapping turns, and while the store keeps the session, a
\* pseudonym in the answer is restored to the person it stood for in the
\* prompt, or left as it is when the store is away: whatever the detector
\* finds or misses, and whatever replies of the store are lost.
THEOREM AnswersNameTheRightPerson ==
  ASSUME Serial, PseudonymsApart, NothingLost
  PROVE  Spec => []RightPersonRestored
<1>1. Init => AnswersShown
  BY DEF Init, AnswersShown
<1>2. IInv /\ PseudonymsOwned /\ AnswersShown /\ [Next]_vars => AnswersShown'
  BY NextAnswers
<1>3. AnswersShown => RightPersonRestored
  BY DEF AnswersShown, RightPersonRestored
<1> QED BY <1>1, <1>2, <1>3, Invariance, OwnedInvariance, PTL DEF Spec
=============================================================================
