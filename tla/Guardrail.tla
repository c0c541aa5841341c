----------------------------- MODULE Guardrail -----------------------------
(***************************************************************************)
(* An LLM call seen from the gateway: the pre-call request passes the HTTP  *)
(* handler and the orchestrator (texts, then images); the gateway sends     *)
(* the model what the reply says, or gives up; the model answers; the       *)
(* post-call request restores the answer, or lets it pass.  One             *)
(* text is rewritten in one step here (TextPipeline has the steps), the     *)
(* image pass is that of ImagePass.  The gateway and the model are          *)
(* external; the gateway fails closed.  Server says when requests are       *)
(* served at all.                                                           *)
(***************************************************************************)
EXTENDS ImagePass, SessionId

CONSTANTS
  Previous,      \* the call that must be over before, or the call itself
  TextsOf,       \* what each text of the pre-call request mentions
  PreIdentity,   \* what identifies the pre-call request
  PostIdentity,  \* what identifies the post-call request
  Anonymous,     \* the random id of a post-call request without any
  PreQuirk,      \* what may be wrong with a pre-call request
  PostQuirk      \* what may be wrong with a post-call request

Quirk == {"none", "unauthorized", "too large", "bad json", "unknown field",
          "bad type", "documents"}

ASSUME CallAssumption ==
  /\ Previous \in [Request -> Request]
  /\ TextsOf \in [Request -> Seq(Name \cup {NoName})]
  /\ PreQuirk \cup PostQuirk \subseteq Quirk
  /\ Person \in Kind
ASSUME IdentityAssumption ==
  /\ Id \subseteq Session
  /\ \A r \in Request : /\ PreIdentity[r] \in Identity /\ PostIdentity[r] \in Identity
                        /\ Anonymous[r] \in Session
  /\ \A r \in Request : SessionOf[r] = Derive(PreIdentity[r], SessionOf[r])

VARIABLES
  pc,
  texts,       \* the texts rewritten, or restored, so far
  reply,       \* the HTTP response of the request
  sentTexts,   \* what the model is sent
  sentImages,
  answer,      \* what each choice of the model's answer mentions
  got,         \* what the client gets
  aware,       \* names mapped at the start, texts with a detection (history)
  lapsed       \* whether the post-call found the store away (history)

callVars == <<pc, texts, reply, sentTexts, sentImages, answer, got, aware, lapsed>>
handlerVars == <<imageVars, callVars>>

Mention == Name \cup {NoName}
Reply == [status : {0, 200, 400, 401, 413, 499, 500, 502},
          action : {"", "NONE", "GUARDRAIL_INTERVENED", "BLOCKED"},
          texts : Seq(Mention), images : Seq(Output)]

Error(status) == [status |-> status, action |-> "", texts |-> << >>, images |-> << >>]
Answer(action, t, i) == [status |-> 200, action |-> action, texts |-> t, images |-> i]

\* Type invariant of a call: a response has a status mapError or ServeHTTP
\* writes and lists of whole entries.
TypeOK ==
  /\ ImageTypeOK
  /\ pc \in [Request -> {"new", "texts", "images", "replied", "model", "answered",
                         "reversing", "back", "over"}]
  /\ \A list \in {texts, sentTexts, answer, got} : list \in [Request -> Seq(Mention)]
  /\ reply \in [Request -> Reply]
  /\ sentImages \in [Request -> Seq(Output)]
  /\ aware \in [Request -> [keys : SUBSET Name, found : SUBSET Nat]]
  /\ lapsed \in [Request -> BOOLEAN]

Init ==
  /\ ImageInit
  /\ pc = [r \in Request |-> "new"]
  /\ texts = [r \in Request |-> << >>]
  /\ reply = [r \in Request |-> Error(0)]
  /\ sentTexts = [r \in Request |-> << >>]
  /\ sentImages = [r \in Request |-> << >>]
  /\ answer = [r \in Request |-> << >>]
  /\ got = [r \in Request |-> << >>]
  /\ aware = [r \in Request |-> [keys |-> {}, found |-> {}]]
  /\ lapsed = [r \in Request |-> FALSE]

-----------------------------------------------------------------------------
(* The HTTP handler. *)

To(r, label) == pc' = [pc EXCEPT ![r] = label]

ReplyWith(r, label, response) ==
  /\ reply' = [reply EXCEPT ![r] = response]
  /\ To(r, label)

\* A request that is refused before it reaches the orchestrator, and the
\* block of one whose messages have documents.
Refusal(quirk) ==
  CASE quirk = "unauthorized" -> Error(401)
    [] quirk = "too large" -> Error(413)
    [] quirk = "documents" -> Answer("BLOCKED", << >>, << >>)
    [] OTHER -> Error(400)

\* Variant: a caller that gave up is answered as a timeout.
StatusTimeout(error) ==
  CASE error \in {"detector", "redactor", "store"} -> 502
    [] error = "canceled" -> 504
    [] OTHER -> 500

\* mapError.
Status(error) ==
  CASE error \in {"detector", "redactor", "store"} -> 502
    [] error = "canceled" -> 499
    [] OTHER -> 500

Refuse(r) ==
  /\ pc[r] = "new"
  /\ Previous[r] = r \/ pc[Previous[r]] = "over"
  /\ \E quirk \in PreQuirk \ {"none"} : ReplyWith(r, "replied", Refusal(quirk))
  /\ UNCHANGED <<imageVars, texts, sentTexts, sentImages, answer, got, aware, lapsed>>

Accept(r) ==
  /\ pc[r] = "new"
  /\ Previous[r] = r \/ pc[Previous[r]] = "over"
  /\ "none" \in PreQuirk
  /\ aware' = [aware EXCEPT ![r].keys = Keys(store[SessionOf[r]])]
  /\ To(r, "texts")
  /\ UNCHANGED <<imageVars, texts, reply, sentTexts, sentImages, answer, got, lapsed>>

-----------------------------------------------------------------------------
(* handleRequest. *)

CurrentText(r) == TextsOf[r][Len(texts[r]) + 1]

InTexts(r) == pc[r] = "texts" /\ Len(texts[r]) < Len(TextsOf[r])

\* What a text mentions after Pseudonymize.
Rewritten(name, m) ==
  IF name # NoName /\ HasKey(m, name) THEN m[CHOOSE k \in KeysFor(m, name) : TRUE] ELSE name

\* What the text a name is in reserves: the search is in lower case.
Occurring(name) == {n \in Name : Fold[n] = Fold[name]}

\* Pseudonymize, with the name of the text detected or missed.
RewriteText(r) ==
  /\ InTexts(r)
  /\ LET s == SessionOf[r]
         name == CurrentText(r)
     IN  \/ /\ name \notin {NoName} \cup AllowList /\ ~HasKey(store[s], name)
            /\ \E p \in Assign(Person, name, store[s], Occurring(name)) :
                 LET m == Merge(store[s], Entries(Person, name, p, store[s]))
                 IN  /\ store' = [store EXCEPT ![s] = m]
                     /\ texts' = [texts EXCEPT ![r] = Append(@, Rewritten(name, m))]
            /\ aware' = [aware EXCEPT ![r].found = @ \cup {Len(texts'[r])}]
         \/ /\ texts' = [texts EXCEPT ![r] = Append(@, Rewritten(name, store[s]))]
            /\ UNCHANGED <<store, aware>>
  /\ UNCHANGED <<piiAction, stage, outputs, relevant, todo, scratch, fresh, kinds, why>>
  /\ UNCHANGED <<pc, reply, sentTexts, sentImages, answer, got, lapsed>>

\* The first text that fails ends the request; earlier texts stay mapped.
TextFails(r) ==
  /\ InTexts(r)
  /\ \E error \in {"detector", "store", "canceled"} :
       /\ error \in Faults \/ (error = "canceled" /\ "caller" \in Faults)
       /\ ReplyWith(r, "replied", Error(Status(error)))
  /\ UNCHANGED <<imageVars, texts, sentTexts, sentImages, answer, got, aware, lapsed>>

TextsDone(r) ==
  /\ pc[r] = "texts"
  /\ Len(texts[r]) = Len(TextsOf[r])
  /\ To(r, "images")
  /\ UNCHANGED <<imageVars, texts, reply, sentTexts, sentImages, answer, got, aware, lapsed>>

HandleImages(r) ==
  /\ pc[r] = "images"
  /\ ImageStep(r)
  /\ UNCHANGED callVars

\* Variant: the flag is overwritten for each text.
LastDiffers(list, original) ==
  list # << >> /\ list[Len(list)] # original[Len(list)]

\* Whether some text was modified.
Differs(list, original) == \E i \in DOMAIN list : list[i] # original[i]

\* The fields that changed; without any, NONE.
Outcome(r) ==
  LET changed == Differs(texts[r], TextsOf[r])
  IN  CASE stage[r] = "failed" -> Error(Status(why[r]))
        [] stage[r] \in {"blocked", "too many"} -> Answer("BLOCKED", << >>, << >>)
        [] stage[r] = "done" ->
             IF changed \/ Modified(r)
             THEN Answer("GUARDRAIL_INTERVENED", IF changed THEN texts[r] ELSE << >>,
                         IF Modified(r) THEN outputs[r] ELSE << >>)
             ELSE Answer("NONE", << >>, << >>)

Respond(r) ==
  /\ pc[r] = "images"
  /\ Ended(r)
  /\ ReplyWith(r, "replied", Outcome(r))
  /\ UNCHANGED <<imageVars, texts, sentTexts, sentImages, answer, got, aware, lapsed>>

-----------------------------------------------------------------------------
(* The gateway and the model. *)

Originals(r) ==
  [i \in DOMAIN ImagesOf[r] |-> [image |-> ImagesOf[r][i], form |-> "raw"]]

Substitute(list, original) == IF list = << >> THEN original ELSE list

\* The gateway replaces what the reply has and sends it to the model.
Forward(r) ==
  /\ pc[r] = "replied"
  /\ reply[r].status = 200 /\ reply[r].action # "BLOCKED"
  /\ sentTexts' = [sentTexts EXCEPT ![r] = Substitute(reply[r].texts, TextsOf[r])]
  /\ sentImages' = [sentImages EXCEPT ![r] = Substitute(reply[r].images, Originals(r))]
  /\ To(r, "model")
  /\ UNCHANGED <<imageVars, texts, reply, answer, got, aware, lapsed>>

GiveUp(r) ==
  /\ pc[r] = "replied"
  /\ reply[r].status # 200 \/ reply[r].action = "BLOCKED"
  /\ To(r, "over")
  /\ UNCHANGED <<imageVars, texts, reply, sentTexts, sentImages, answer, got, aware, lapsed>>

\* Each choice of the model's answer repeats one of the texts.
ModelAnswers(r) ==
  /\ pc[r] = "model"
  /\ answer' = [answer EXCEPT ![r] = sentTexts[r]]
  /\ texts' = [texts EXCEPT ![r] = << >>]
  /\ To(r, "answered")
  /\ UNCHANGED <<imageVars, reply, sentTexts, sentImages, got, aware, lapsed>>

-----------------------------------------------------------------------------
(* handleResponse. *)

\* Variant: the call identifies the session of an answer.
SessionOfCall(r) == Derive([PostIdentity[r] EXCEPT !.metadata = << >>, !.endUser = NoId], Anonymous[r])

\* The handler derives the session of each request anew.
BackSession(r) == Derive(PostIdentity[r], Anonymous[r])

RefuseBack(r) ==
  /\ pc[r] = "answered"
  /\ \E quirk \in PostQuirk \ {"none"} : ReplyWith(r, "back", Refusal(quirk))
  /\ UNCHANGED <<imageVars, texts, sentTexts, sentImages, answer, got, aware, lapsed>>

AcceptBack(r) ==
  /\ pc[r] = "answered"
  /\ "none" \in PostQuirk
  /\ To(r, "reversing")
  /\ UNCHANGED <<imageVars, texts, reply, sentTexts, sentImages, answer, got, aware, lapsed>>

InAnswer(r) == pc[r] = "reversing" /\ Len(texts[r]) < Len(answer[r])

ReverseText(r) ==
  /\ InAnswer(r)
  /\ LET said == answer[r][Len(texts[r]) + 1]
         reals == IF said = NoName THEN {} ELSE Inverse(store[BackSession(r)], said)
     IN  \E name \in IF reals = {} THEN {said} ELSE reals :
           texts' = [texts EXCEPT ![r] = Append(@, name)]
  /\ UNCHANGED <<imageVars, pc, reply, sentTexts, sentImages, answer, got, aware, lapsed>>

\* Variant: the error is returned.
FailBack(r) ==
  /\ "store" \in Faults
  /\ InAnswer(r)
  /\ ReplyWith(r, "back", Error(Status("store")))
  /\ lapsed' = [lapsed EXCEPT ![r] = TRUE]
  /\ UNCHANGED <<imageVars, texts, sentTexts, sentImages, answer, got, aware>>

\* Best-effort: without the store no text of the answer is changed.
ReverseUnavailable(r) ==
  /\ "store" \in Faults
  /\ InAnswer(r)
  /\ ReplyWith(r, "back", Answer("NONE", << >>, << >>))
  /\ lapsed' = [lapsed EXCEPT ![r] = TRUE]
  /\ UNCHANGED <<imageVars, texts, sentTexts, sentImages, answer, got, aware>>

RespondBack(r) ==
  /\ pc[r] = "reversing"
  /\ Len(texts[r]) = Len(answer[r])
  /\ ReplyWith(r, "back",
               IF Differs(texts[r], answer[r])
               THEN Answer("GUARDRAIL_INTERVENED", texts[r], << >>)
               ELSE Answer("NONE", << >>, << >>))
  /\ UNCHANGED <<imageVars, texts, sentTexts, sentImages, answer, got, aware, lapsed>>

\* The gateway hands the answer on; an error or a block loses it.
Deliver(r) ==
  /\ pc[r] = "back"
  /\ got' = [got EXCEPT ![r] =
               IF reply[r].status = 200 /\ reply[r].action # "BLOCKED"
               THEN Substitute(reply[r].texts, answer[r]) ELSE << >>]
  /\ To(r, "over")
  /\ UNCHANGED <<imageVars, texts, reply, sentTexts, sentImages, answer, aware, lapsed>>

-----------------------------------------------------------------------------
\* ServeHTTP begins with a request, or refuses it at once.
Arrive(r) == Accept(r) \/ Refuse(r) \/ AcceptBack(r) \/ RefuseBack(r)

\* The rest of it.
Work(r) ==
  \/ RewriteText(r) \/ TextFails(r) \/ TextsDone(r) \/ HandleImages(r) \/ Respond(r)
  \/ ReverseText(r) \/ ReverseUnavailable(r) \/ RespondBack(r)

Gateway(r) == Forward(r) \/ GiveUp(r) \/ ModelAnswers(r) \/ Deliver(r)

-----------------------------------------------------------------------------
(* What must hold. *)

\* Fail-closed end to end: whatever fails, is skipped, blocked or unchanged
\* among the texts and images of a request, the model is sent no personal
\* image in clear, no name in clear that was detected in its text, and none
\* that an earlier call -- its texts or its images -- mapped.
OnlyProtectedSent ==
  \A r \in Request : pc[r] = "model" =>
    /\ \A i \in DOMAIN sentTexts[r] :
         LET name == TextsOf[r][i]
         IN  i \in aware[r].found
           \/ (name # NoName /\ \E k \in aware[r].keys : Fold[k] = Fold[name])
               => sentTexts[r][i] # name
    /\ piiAction # "passthrough" =>
         \A i \in DOMAIN sentImages[r] :
           sentImages[r][i].image \in Personal => sentImages[r][i].form = "redacted"

\* Best-effort: an answer of the model reaches the client in full, although
\* the store may be away at any of its texts, unless the handler refuses the
\* request it comes in or the service does not answer it.
AnswerKept ==
  \A r \in Request :
    pc[r] = "over" /\ reply[r].status \notin {0, 400, 401, 413} =>
      Len(got[r]) = Len(answer[r])

\* The client gets the names of the prompt back, at their positions, as long
\* as the store was there for the post-call; images and earlier calls of the
\* session do not confuse them.
NamesRestored ==
  \A r \in Request : pc[r] = "over" /\ ~lapsed[r] =>
    \A i \in DOMAIN got[r] :
      got[r][i] = TextsOf[r][i]
        \/ (got[r][i] # NoName /\ Fold[got[r][i]] = Fold[TextsOf[r][i]])
=============================================================================
