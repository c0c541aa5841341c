---------------------------- MODULE TextPipeline ----------------------------
(***************************************************************************)
(* Conversation turns over the shared mapping store.  A turn is one       *)
(* pre-call request (detect, load the mapping, assign, persist, rewrite,   *)
(* for each text in order), the model's answer, and the post-call request  *)
(* that restores it.  Turns of one session may overlap; each Redis command *)
(* is one atomic step, so other turns run between two commands of a turn.  *)
(* The store can fail, lose a reply after the command took effect, forget  *)
(* a session or hold a payload that is not JSON.                           *)
(***************************************************************************)
EXTENDS Mapping

CONSTANTS
  Session, Turn,
  SessionOf,    \* the session a turn's request derives
  TextsOf,      \* the texts of a turn's pre-call request, in order
  Text,
  Mentions,     \* the strings that occur in a text as words
  Substrings,   \* the strings that occur in a text anywhere, in any case
  Blank,        \* the texts of white space only
  Raw,          \* the results the detector may return for a text
  Score, Threshold, Entities,
  AllowListed,  \* strings filterAllowList drops, inflected forms included
  Implausible,  \* strings filterImplausible drops
  Longer,       \* the pairs of strings in the order assignNew sorts them
  Corrupt,      \* a payload of the mapping field that is not JSON
  Serial,       \* whether a session's turns wait for one another
  Faults,       \* the faults of the environment that may happen
  MaxLife       \* bound on the number of times a session is forgotten

Fault == {"detector", "store", "reply", "forget", "corrupt"}

ASSUME TurnAssumption ==
  /\ SessionOf \in [Turn -> Session]
  /\ TextsOf \in [Turn -> Seq(Text)]
ASSUME TextAssumption ==
  /\ Mentions \in [Text -> SUBSET Name]
  /\ Substrings \in [Text -> SUBSET Name]
  /\ Raw \in [Text -> SUBSET (SUBSET [name : Name, kind : Kind, score : Score])]
ASSUME ScoreAssumption == Score \subseteq Nat /\ Threshold \in [Kind -> Nat]
ASSUME FaultAssumption == Faults \subseteq Fault
ASSUME MaxLifeAssumption == MaxLife \in Nat

Detection == [name : Name, kind : Kind, score : Score]

ASSUME CorruptAssumption == Corrupt \notin Mappings

VARIABLES
  store,     \* the mapping field of each session's hash
  life,      \* how often each session was forgotten (history)
  pc,
  done,      \* texts of the turn rewritten so far
  found,     \* detections of the current text that passed the filters
  todo,      \* those of them assignNew has not handled yet
  scratch,   \* assignNew's working copy of the mapping
  fresh,     \* the new mappings of the current text
  seen,      \* the lifetime of the mapping that was loaded (history)
  view,      \* the mapping the current text is rewritten with
  kept,      \* the lifetime of the view (history)
  released,  \* substitutions the model has been shown (history)
  answer,    \* a pseudonym in the model's answer
  restored,  \* what the client gets in its place
  known      \* the keys of the mapping when the turn began (history)

local == <<done, found, todo, scratch, fresh, seen, view, kept>>
talk == <<released, answer, restored, known>>
vars == <<store, life, pc, local, talk>>

Fact == [life : Nat, key : Name, pseudo : Name]

\* Type invariant of the turns: every intermediate of Pseudonymize is a mapping
\* of strings to strings, whatever the store held.
TypeOK ==
  /\ store \in [Session -> Mappings \cup {Corrupt}]
  /\ life \in [Session -> Nat]
  /\ pc \in [Turn -> {"idle", "detect", "load", "assign", "rewrite",
                      "sent", "answered", "over", "failed"}]
  /\ done \in [Turn -> Nat]
  /\ found \in [Turn -> SUBSET Detection]
  /\ todo \in [Turn -> SUBSET Detection]
  /\ scratch \in [Turn -> Mappings]
  /\ fresh \in [Turn -> Mappings]
  /\ seen \in [Turn -> Nat]
  /\ view \in [Turn -> Mappings]
  /\ kept \in [Turn -> Nat]
  /\ released \in [Turn -> SUBSET Fact]
  /\ answer \in [Turn -> Name \cup {NoName}]
  /\ restored \in [Turn -> Name \cup {NoName}]
  /\ known \in [Turn -> [life : Nat, keys : SUBSET Name]]

Init ==
  /\ store = [s \in Session |-> Empty]
  /\ life = [s \in Session |-> 0]
  /\ pc = [t \in Turn |-> "idle"]
  /\ done = [t \in Turn |-> 0]
  /\ found = [t \in Turn |-> {}]
  /\ todo = [t \in Turn |-> {}]
  /\ scratch = [t \in Turn |-> Empty]
  /\ fresh = [t \in Turn |-> Empty]
  /\ seen = [t \in Turn |-> 0]
  /\ view = [t \in Turn |-> Empty]
  /\ kept = [t \in Turn |-> 0]
  /\ released = [t \in Turn |-> {}]
  /\ answer = [t \in Turn |-> NoName]
  /\ restored = [t \in Turn |-> NoName]
  /\ known = [t \in Turn |-> [life |-> 0, keys |-> {}]]

-----------------------------------------------------------------------------
(* What the steps are made of. *)

Goto(t, label) == pc' = [pc EXCEPT ![t] = label]

Current(t) == TextsOf[t][done[t] + 1]

\* GetMapping: a missing or undecodable field reads as the empty mapping.
Stored(s) == IF store[s] = Corrupt THEN Empty ELSE store[s]

\* The filters Pseudonymize applies to the detector's result.
Filtered(detections) ==
  {d \in detections : /\ d.kind \in Entities
                      /\ d.score >= Threshold[d.kind]
                      /\ d.name \notin AllowListed
                      /\ d.name \notin Implausible}

\* assignNew keeps one detection for each string, one of the best scored.
Deduplicated(detections) ==
  {best \in SUBSET detections :
     \A d \in detections :
       \E b \in best :
         /\ b.name = d.name
         /\ \A e \in detections : e.name = d.name => e.score <= b.score
         /\ \A c \in best : c.name = d.name => c = b}

\* The next text of the request, or the answer to the gateway after the last.
After(t, count) == IF count < Len(TextsOf[t]) THEN "detect" ELSE "sent"

\* Variant: a name without an entry is replaced too, by nothing.
FactsUnchecked(text, m, l) ==
  {[life |-> l, key |-> n, pseudo |-> m[n]] : n \in Mentions[text]}

\* The substitutions a mapping makes in a text.
FactsOf(text, m, l) ==
  {[life |-> l, key |-> k, pseudo |-> m[k]] :
     k \in UNION {KeysFor(m, n) : n \in Mentions[text]}}

-----------------------------------------------------------------------------
(* The pre-call request. *)

Start(t) ==
  /\ pc[t] = "idle"
  /\ Serial => \A u \in Turn :
       SessionOf[u] = SessionOf[t] => pc[u] \in {"idle", "over", "failed"}
  /\ known' = [known EXCEPT ![t] = [life |-> life[SessionOf[t]],
                                     keys |-> Keys(Stored(SessionOf[t]))]]
  /\ Goto(t, After(t, 0))
  /\ UNCHANGED <<store, life, local, released, answer, restored>>

\* A text of white space only is returned as it is.
SkipBlank(t) ==
  /\ pc[t] = "detect"
  /\ Current(t) \in Blank
  /\ done' = [done EXCEPT ![t] = @ + 1]
  /\ Goto(t, After(t, done[t] + 1))
  /\ UNCHANGED <<store, life, found, todo, scratch, fresh, seen, view, kept, talk>>

Detect(t) ==
  /\ pc[t] = "detect"
  /\ Current(t) \notin Blank
  /\ \E raw \in Raw[Current(t)] : \E best \in Deduplicated(Filtered(raw)) :
       /\ found' = [found EXCEPT ![t] = best]
       /\ todo' = [todo EXCEPT ![t] = best]
  /\ Goto(t, "load")
  /\ UNCHANGED <<store, life, done, scratch, fresh, seen, view, kept, talk>>

\* The detector fails: nothing is sent to the model.
DetectFails(t) ==
  /\ "detector" \in Faults
  /\ pc[t] = "detect"
  /\ Current(t) \notin Blank
  /\ Goto(t, "failed")
  /\ UNCHANGED <<store, life, local, talk>>

\* Variant: a text without detections is not rewritten.
LoadAndSkip(t) ==
  /\ pc[t] = "load"
  /\ IF found[t] = {}
     THEN /\ view' = [view EXCEPT ![t] = Empty]
          /\ kept' = [kept EXCEPT ![t] = life[SessionOf[t]]]
          /\ Goto(t, "rewrite")
          /\ UNCHANGED <<scratch, fresh, seen>>
     ELSE /\ scratch' = [scratch EXCEPT ![t] = Stored(SessionOf[t])]
          /\ fresh' = [fresh EXCEPT ![t] = Empty]
          /\ seen' = [seen EXCEPT ![t] = life[SessionOf[t]]]
          /\ Goto(t, "assign")
          /\ UNCHANGED <<view, kept>>
  /\ UNCHANGED <<store, life, done, found, todo, talk>>

\* GetMapping.  Without detections the text is rewritten with what was loaded.
Load(t) ==
  /\ pc[t] = "load"
  /\ LET s == SessionOf[t]
         existing == Stored(s)
     IN  IF found[t] = {}
         THEN /\ view' = [view EXCEPT ![t] = existing]
              /\ kept' = [kept EXCEPT ![t] = life[s]]
              /\ Goto(t, "rewrite")
              /\ UNCHANGED <<scratch, fresh, seen>>
         ELSE /\ scratch' = [scratch EXCEPT ![t] = existing]
              /\ fresh' = [fresh EXCEPT ![t] = Empty]
              /\ seen' = [seen EXCEPT ![t] = life[s]]
              /\ Goto(t, "assign")
              /\ UNCHANGED <<view, kept>>
  /\ UNCHANGED <<store, life, done, found, todo, talk>>

LoadFails(t) ==
  /\ "store" \in Faults
  /\ pc[t] = "load"
  /\ Goto(t, "failed")
  /\ UNCHANGED <<store, life, local, talk>>

\* Variant: the working copy is not updated between two entities.
AssignFromLoaded(t) ==
  /\ pc[t] = "assign"
  /\ \E d \in todo[t] :
       /\ todo' = [todo EXCEPT ![t] = @ \ {d}]
       /\ \/ HasKey(scratch[t], d.name) /\ UNCHANGED fresh
          \/ /\ ~HasKey(scratch[t], d.name)
             /\ \E p \in Assign(d.kind, d.name, scratch[t], Substrings[Current(t)]) :
                  fresh' = [fresh EXCEPT ![t] =
                              Merge(@, Entries(d.kind, d.name, p, scratch[t]))]
  /\ UNCHANGED <<store, life, pc, done, found, scratch, seen, view, kept, talk>>

\* One round of assignNew's loop: the longest detection that is left.
AssignNext(t) ==
  /\ pc[t] = "assign"
  /\ \E d \in todo[t] :
       /\ \A e \in todo[t] : e = d \/ <<d.name, e.name>> \in Longer
       /\ todo' = [todo EXCEPT ![t] = @ \ {d}]
       /\ \/ /\ HasKey(scratch[t], d.name)
             /\ UNCHANGED <<scratch, fresh>>
          \/ /\ ~HasKey(scratch[t], d.name)
             /\ \E p \in Assign(d.kind, d.name, scratch[t], Substrings[Current(t)]) :
                  LET new == Entries(d.kind, d.name, p, scratch[t])
                  IN  /\ scratch' = [scratch EXCEPT ![t] = Merge(@, new)]
                      /\ fresh' = [fresh EXCEPT ![t] = Merge(@, new)]
  /\ UNCHANGED <<store, life, pc, done, found, seen, view, kept, talk>>

\* Every detection was mapped already: the loaded mapping is used.
UseLoaded(t) ==
  /\ pc[t] = "assign"
  /\ todo[t] = {}
  /\ fresh[t] = Empty
  /\ view' = [view EXCEPT ![t] = scratch[t]]
  /\ kept' = [kept EXCEPT ![t] = seen[t]]
  /\ Goto(t, "rewrite")
  /\ UNCHANGED <<store, life, done, found, todo, scratch, fresh, seen, talk>>

CanPersist(t) ==
  /\ pc[t] = "assign"
  /\ todo[t] = {}
  /\ fresh[t] # Empty

\* Variant: the merge is made from the copy that was loaded.
WriteCopy(t) ==
  /\ store[SessionOf[t]] # Corrupt
  /\ store' = [store EXCEPT ![SessionOf[t]] = scratch[t]]

\* The script of AddMappings runs; it cannot decode a corrupt field.
RunScript(t) ==
  LET s == SessionOf[t]
  IN  /\ store[s] # Corrupt
      /\ store' = [store EXCEPT ![s] = Merge(@, fresh[t])]

\* Variants: the text is rewritten with the new entries only, or with the
\* working copy, instead of the script's result.
PersistAndUse(t, m) ==
  /\ CanPersist(t)
  /\ RunScript(t)
  /\ view' = [view EXCEPT ![t] = m]
  /\ kept' = [kept EXCEPT ![t] = life[SessionOf[t]]]
  /\ Goto(t, "rewrite")
  /\ UNCHANGED <<life, done, found, todo, scratch, fresh, seen, talk>>
PersistUseNew(t) == PersistAndUse(t, fresh[t])
PersistUseCopy(t) == PersistAndUse(t, scratch[t])

Persist(t) ==
  /\ CanPersist(t)
  /\ RunScript(t)
  /\ view' = [view EXCEPT ![t] = store'[SessionOf[t]]]
  /\ kept' = [kept EXCEPT ![t] = life[SessionOf[t]]]
  /\ Goto(t, "rewrite")
  /\ UNCHANGED <<life, done, found, todo, scratch, fresh, seen, talk>>

\* The script ran but its reply is lost: the client retries or gives up.
PersistUnanswered(t) ==
  /\ "reply" \in Faults
  /\ CanPersist(t)
  /\ RunScript(t)
  /\ UNCHANGED <<life, pc, local, talk>>

\* EVAL fails: the store is away, or the script cannot decode the field.
PersistFails(t) ==
  /\ CanPersist(t)
  /\ "store" \in Faults \/ store[SessionOf[t]] = Corrupt
  /\ Goto(t, "failed")
  /\ UNCHANGED <<store, life, local, talk>>

\* Variant: the loop over the texts does not advance.
RewriteAgain(t) ==
  /\ pc[t] = "rewrite"
  /\ Goto(t, "detect")
  /\ UNCHANGED <<store, life, local, talk>>

\* Replace, and on to the next text; the gateway sees the texts together.
Rewrite(t) ==
  /\ pc[t] = "rewrite"
  /\ released' = [released EXCEPT ![t] = @ \cup FactsOf(Current(t), view[t], kept[t])]
  /\ done' = [done EXCEPT ![t] = @ + 1]
  /\ Goto(t, After(t, done[t] + 1))
  /\ UNCHANGED <<store, life, found, todo, scratch, fresh, seen, view, kept, answer, restored, known>>

-----------------------------------------------------------------------------
(* The model's answer and the post-call request. *)

\* The model repeats one of the pseudonyms it was shown, or none.
ModelAnswers(t) ==
  /\ pc[t] = "sent"
  /\ \E p \in {f.pseudo : f \in released[t]} \cup {NoName} :
       answer' = [answer EXCEPT ![t] = p]
  /\ Goto(t, "answered")
  /\ UNCHANGED <<store, life, local, released, restored, known>>

\* Reverse: a pseudonym that is not in the inverse is left as it is.
Reverse(t) ==
  /\ pc[t] = "answered"
  /\ LET reals == Inverse(Stored(SessionOf[t]), answer[t])
     IN  \E r \in IF answer[t] = NoName \/ reals = {} THEN {answer[t]} ELSE reals :
           restored' = [restored EXCEPT ![t] = r]
  /\ Goto(t, "over")
  /\ UNCHANGED <<store, life, local, released, answer, known>>

\* Post-call is best-effort: without the store the answer passes unchanged.
ReverseUnavailable(t) ==
  /\ "store" \in Faults
  /\ pc[t] = "answered"
  /\ restored' = [restored EXCEPT ![t] = answer[t]]
  /\ Goto(t, "over")
  /\ UNCHANGED <<store, life, local, released, answer, known>>

-----------------------------------------------------------------------------
(* The environment of the store. *)

\* DELETE /sessions/{id}, or the loss of the key to its TTL or to eviction.
Forget(s) ==
  /\ "forget" \in Faults
  /\ store[s] # Empty
  /\ life[s] < MaxLife
  /\ store' = [store EXCEPT ![s] = Empty]
  /\ life' = [life EXCEPT ![s] = @ + 1]
  /\ UNCHANGED <<pc, local, talk>>

\* Something else overwrites the field with a payload that is not JSON.
Garble(s) ==
  /\ "corrupt" \in Faults
  /\ store[s] \notin {Empty, Corrupt}
  /\ life[s] < MaxLife
  /\ store' = [store EXCEPT ![s] = Corrupt]
  /\ life' = [life EXCEPT ![s] = @ + 1]
  /\ UNCHANGED <<pc, local, talk>>

-----------------------------------------------------------------------------
Precall(t) ==
  \/ Start(t) \/ SkipBlank(t) \/ Detect(t) \/ DetectFails(t)
  \/ Load(t) \/ LoadFails(t) \/ AssignNext(t) \/ UseLoaded(t)
  \/ Persist(t) \/ PersistUnanswered(t) \/ PersistFails(t) \/ Rewrite(t)

Postcall(t) == ModelAnswers(t) \/ Reverse(t) \/ ReverseUnavailable(t)

\* Every turn has ended; nothing is left to do.
AllOver ==
  /\ \A t \in Turn : pc[t] \in {"over", "failed"}
  /\ UNCHANGED vars

Next ==
  \/ \E t \in Turn : Precall(t) \/ Postcall(t)
  \/ \E s \in Session : Forget(s) \/ Garble(s)
  \/ AllOver

Spec == Init /\ [][Next]_vars

(* Every call a request makes has a timeout, so a request always takes its *)
(* next step or fails; the model may stay silent for ever.                 *)
RequestStep(t) ==
  \/ SkipBlank(t) \/ Detect(t) \/ Load(t) \/ AssignNext(t) \/ UseLoaded(t)
  \/ Persist(t) \/ PersistFails(t) \/ Rewrite(t) \/ Reverse(t)

FairSpec == Spec /\ \A t \in Turn : WF_vars(RequestStep(t))

-----------------------------------------------------------------------------
(* What must hold. *)

\* Fail-closed: when a text is rewritten, every name that was detected in it
\* has an entry, so none of them goes to the model in clear -- unless the
\* session was forgotten between loading the mapping and persisting.
NoDetectedNameInClear ==
  \A t \in Turn :
    pc[t] = "rewrite" /\ kept[t] = seen[t] =>
      \A d \in found[t] : HasKey(view[t], d.name)

\* A name that had an entry when the turn began is rewritten in its texts
\* even when the detector misses it this time (comment of Pseudonymize).
EarlierNamesRewritten ==
  \A t \in Turn :
    pc[t] = "rewrite" /\ kept[t] = known[t].life =>
      \A n \in Mentions[Current(t)] :
        (\E k \in known[t].keys : Fold[k] = Fold[n]) => HasKey(view[t], n)

\* What the model was shown can be restored: each substitution is an entry of
\* the store as long as the session is not forgotten, whatever other turns do.
ReleasedIsPersisted ==
  \A t \in Turn : \A f \in released[t] :
    f.life = life[SessionOf[t]] => Stored(SessionOf[t])[f.key] = f.pseudo

\* Within a lifetime of a session an entry has one pseudonym in every text of
\* every turn: across overlapping turns, retried scripts and lost replies.
StablePseudonyms ==
  \A t, u \in Turn : SessionOf[t] = SessionOf[u] =>
    \A f \in released[t], g \in released[u] :
      f.life = g.life /\ f.key = g.key => f.pseudo = g.pseudo

\* Two reals never share a pseudonym, so the inverse is a function.
DistinctPseudonyms ==
  \A s \in Session : \A j, k \in Keys(Stored(s)) :
    Fold[Stored(s)[j]] = Fold[Stored(s)[k]] => j = k

\* Spellings of a name that differ only in case share one entry.
OneKeyPerName ==
  \A s \in Session : \A j, k \in Keys(Stored(s)) : Fold[j] = Fold[k] => j = k

\* A pseudonym in the model's answer is restored to the real value it stood
\* for in the prompt of that turn, or is left as it is.
RightPersonRestored ==
  \A t \in Turn :
    pc[t] = "over" /\ restored[t] # answer[t] =>
      \E f \in released[t] : f.key = restored[t] /\ f.pseudo = answer[t]

\* What can come back after an erasure: a name enters the store, for the first
\* time or again, only with the pseudonym that a text being worked on has minted
\* for what was detected in that text -- never with what its request had loaded
\* or minted for earlier texts, although its working copy still holds all of
\* that.  The text's own new entries do come back, when its merge was planned
\* before the erasure or the script is repeated after it (assignNew, AddMappings).
OnlyMintedEnters ==
  [][\A s \in Session : \A k \in Keys(Stored(s)') \ Keys(Stored(s)) :
       \E t \in Turn : /\ SessionOf[t] = s /\ pc[t] = "assign"
                       /\ Stored(s)'[k] = fresh[t][k]
                       /\ \E d \in found[t] :
                            k = d.name \/ \E i \in DOMAIN Fields[d.name] : k = Fields[d.name][i]]_vars

\* Every pre-call request is answered, with the texts or with an error, and every
\* post-call request with a text (Pseudonymize for all texts, then Reverse).
RequestsAnswered ==
  \A t \in Turn :
    /\ pc[t] = "detect" ~> pc[t] \in {"sent", "answered", "over", "failed"}
    /\ pc[t] = "answered" ~> pc[t] = "over"

\* The store keeps what SessionMap promises: entries are only ever added
\* within a lifetime, and a forgotten session restarts from nothing.
Promise == INSTANCE SessionMap WITH
  Key <- Name, Value <- Name, None <- NoName,
  map <- [s \in Session |-> Stored(s)], life <- life

StoreKeepsPromise == Promise!Spec

-----------------------------------------------------------------------------
(* The inductive invariant behind the safety properties. *)

\* A turn begins with its first text; while it works on one, it has one.
InText ==
  \A t \in Turn :
    /\ pc[t] = "idle" => done[t] = 0
    /\ pc[t] \in {"detect", "load", "assign", "rewrite"}
         => done[t] < Len(TextsOf[t])

\* The keys of the working copy that came from the store.
Loaded(t) == {k \in Keys(scratch[t]) : fresh[t][k] = NoName}

Snapshot(m, keys, l) == {[life |-> l, key |-> k, pseudo |-> m[k]] : k \in keys}

\* The substitutions a turn has made or is about to make, and those it has
\* read and may make if it finds nothing to add.
Shown(t) ==
  released[t]
    \cup (IF pc[t] = "rewrite" THEN Snapshot(view[t], Keys(view[t]), kept[t]) ELSE {})
    \cup (IF pc[t] = "assign" THEN Snapshot(scratch[t], Loaded(t), seen[t]) ELSE {})

\* They are in the store while their lifetime lasts.
ShownIsPersisted ==
  \A t \in Turn : \A f \in Shown(t) :
    /\ f.life <= life[SessionOf[t]]
    /\ f.life = life[SessionOf[t]] => Stored(SessionOf[t])[f.key] = f.pseudo

\* No two turns of a session disagree about them.
ShownAgrees ==
  \A t, u \in Turn : SessionOf[t] = SessionOf[u] =>
    \A f \in Shown(t), g \in Shown(u) :
      f.life = g.life /\ f.key = g.key => f.pseudo = g.pseudo

\* The detections assignNew is past have a key in the working copy.
HandledBy(t) ==
  /\ pc[t] = "load" => todo[t] = found[t]
  /\ pc[t] = "assign" =>
       /\ todo[t] \subseteq found[t]
       /\ \A d \in found[t] \ todo[t] : HasKey(scratch[t], d.name)

CoveredBy(t) ==
  pc[t] = "rewrite" /\ kept[t] = seen[t] =>
    \A d \in found[t] : HasKey(view[t], d.name)

\* The keys a turn began with are in every mapping of the same lifetime.
KnownBy(t) ==
  LET k == known[t]
  IN  /\ k.life <= life[SessionOf[t]]
      /\ k.life = life[SessionOf[t]] => k.keys \subseteq Keys(Stored(SessionOf[t]))
      /\ pc[t] = "assign" /\ seen[t] = k.life => k.keys \subseteq Keys(scratch[t])
      /\ pc[t] = "rewrite" /\ kept[t] = k.life => k.keys \subseteq Keys(view[t])

\* The conjunction that is inductive: types, what was shown is kept and agrees,
\* and what each turn knows of its own mapping (Pseudonymize, AddMappings).
IInv ==
  /\ TypeOK
  /\ InText
  /\ ShownIsPersisted
  /\ ShownAgrees
  /\ \A t \in Turn : HandledBy(t) /\ CoveredBy(t) /\ KnownBy(t)

-----------------------------------------------------------------------------
\* What the comment of Pseudonymize and the fail-closed policy say, without
\* the exception for a session forgotten meanwhile; the code does not do it.
NeverInClear ==
  \A t \in Turn :
    pc[t] = "rewrite" => \A d \in found[t] : HasKey(view[t], d.name)
=============================================================================
