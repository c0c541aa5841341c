-------------------------------- MODULE Waeg --------------------------------
(***************************************************************************)
(* Requests of the Wäg gateway through its adapter (ServeWaegHTTP): the    *)
(* pre-call rewrites the prompt, the during-calls restore the part of a    *)
(* streamed answer that the gateway has not committed to the client yet    *)
(* (the window), the post-call restores a whole answer.  The session is    *)
(* derived anew in each call.  The gateway is external; the integration    *)
(* guide says what it does with the responses.                             *)
(***************************************************************************)
EXTENDS Replacer, SessionId

CONSTANTS
  Request,
  Identities,   \* what may identify the requests: session, user and request id
  WaegAnon,     \* the request id of a request without one
  Session,
  PromptsOf,    \* the prompts a request may have
  Named,        \* the names that may be detected, in the order they are mapped
  Pool,         \* the pseudonyms, in their order
  Free,         \* answers the model may give besides repeating its prompt
  Streamed,     \* the requests whose answers are streamed
  DefaultHold,  \* stream_default_hold_chars
  Faults        \* the faults that may happen

ASSUME WaegAssumption ==
  /\ Identities \subseteq [Request -> [session : Id \cup {NoId}, user : Id \cup {NoId},
                                        request : Id \cup {NoId}]]
  /\ WaegAnon \in Id /\ Id \subseteq Session
  /\ PromptsOf \in [Request -> SUBSET Seq(Char)]
  /\ Named \in Seq(Seq(Char) \ {<< >>}) /\ Pool \in Seq(Seq(Char) \ {<< >>})
  /\ Free \subseteq Seq(Char) \ {<< >>}
  /\ Streamed \subseteq Request /\ DefaultHold \in Nat
  /\ Faults \subseteq {"detector", "store", "refused"}

VARIABLES
  identity,   \* what identifies each request, in all of its calls
  store,      \* the mapping of each session
  pc,
  prompt,     \* what the user wrote
  asked,      \* the prompt as the pre-call rewrote it
  answer,     \* what the model says, all of it
  got,        \* the number of its characters that have arrived
  pending,    \* the window: characters that are not committed yet
  committed,  \* what the client has been sent
  blanked,    \* whether a during-call had a blank window (history)
  lapsed      \* whether an answer met the store unavailable (history)

request == <<identity, pc, prompt, asked, answer, got, pending, committed, blanked, lapsed>>
vars == <<store, request>>

\* Type invariant of the adapter's requests.
TypeOK ==
  /\ identity \in Identities
  /\ DOMAIN store = Session
  /\ \A s \in Session :
       /\ DOMAIN store[s] \subseteq {Named[i] : i \in DOMAIN Named}
       /\ \A k \in DOMAIN store[s] : store[s][k] \in {Pool[i] : i \in DOMAIN Pool}
  /\ pc \in [Request -> {"new", "masked", "sent", "streaming", "window", "whole",
                         "over", "failed"}]
  /\ \A strings \in {prompt, asked, answer, pending, committed} : strings \in [Request -> Seq(Char)]
  /\ got \in [Request -> Nat]
  /\ \A r \in Request : prompt[r] \in PromptsOf[r] /\ got[r] <= Len(answer[r])
  /\ blanked \in [Request -> BOOLEAN]
  /\ lapsed \in [Request -> BOOLEAN]

Init ==
  /\ identity \in Identities
  /\ store = [s \in Session |-> [k \in {} |-> << >>]]
  /\ pc = [r \in Request |-> "new"]
  /\ prompt \in [Request -> UNION {PromptsOf[r] : r \in Request}]
  /\ \A r \in Request : prompt[r] \in PromptsOf[r]
  /\ asked = [r \in Request |-> << >>]
  /\ answer = [r \in Request |-> << >>]
  /\ got = [r \in Request |-> 0]
  /\ pending = [r \in Request |-> << >>]
  /\ committed = [r \in Request |-> << >>]
  /\ blanked = [r \in Request |-> FALSE]
  /\ lapsed = [r \in Request |-> FALSE]

-----------------------------------------------------------------------------
(* The adapter. *)

Goto(r, label) == pc' = [pc EXCEPT ![r] = label]

\* Variant: requests are told apart by their users only.
SessionOfUser(r) ==
  IF identity[r].session # NoId THEN identity[r].session
  ELSE IF identity[r].user # NoId THEN Sanitize[identity[r].user] ELSE Sanitize[WaegAnon]

\* A session id is used as it is; else the user, or the request, is derived from.
SessionOf(r) ==
  LET call == IF identity[r].request = NoId THEN WaegAnon ELSE identity[r].request
  IN  IF identity[r].session # NoId THEN identity[r].session
      ELSE Derive([metadata |-> << >>, endUser |-> identity[r].user,
                   trace |-> NoId, call |-> call], WaegAnon)

Blank(string) == \A i \in DOMAIN string : string[i] = " "

\* Variant: the cumulative text first.
FirstNonEmptySwapped(first, second) ==
  IF ~Blank(second) THEN second ELSE IF ~Blank(first) THEN first ELSE << >>

FirstNonEmpty(first, second) ==
  IF ~Blank(first) THEN first ELSE IF ~Blank(second) THEN second ELSE << >>

Occurs(string, text) == \E i \in 1..Len(text) : OccursAt(text, i, string)

\* The names that stand in a text as words.
NamesIn(text) ==
  {Named[n] : n \in {m \in DOMAIN Named :
     \E i \in 1..Len(text) : /\ OccursAt(text, i, Named[m])
                             /\ LeftBoundaryClear(text, i)
                             /\ RightBoundaryClear(text, i + Len(Named[m]))}}

\* The mapping with a name: one that has no key, in any case, takes the first
\* name of the pool that is neither taken nor in the text, if there is one.
WithName(m, name, text) ==
  LET free == {i \in DOMAIN Pool : Pool[i] \notin {m[k] : k \in DOMAIN m} /\ ~Occurs(Pool[i], text)}
  IN  IF free = {} \/ \E k \in DOMAIN m : ToLower(k) = ToLower(name) THEN m
      ELSE [k \in DOMAIN m \cup {name} |->
              IF k \in DOMAIN m THEN m[k] ELSE Pool[CHOOSE i \in free : \A j \in free : i <= j]]

\* Variant: a new name is stored in lower case.
LearnLower(m, found, text) ==
  LET after[n \in 0..Len(Named)] ==
        IF n = 0 THEN m
        ELSE IF Named[n] \in found THEN WithName(after[n - 1], ToLower(Named[n]), text)
        ELSE after[n - 1]
  IN  after[Len(Named)]

\* The mapping after a text in which some names were detected, one by one.
Learn(m, found, text) ==
  LET after[n \in 0..Len(Named)] ==
        IF n = 0 THEN m
        ELSE IF Named[n] \in found THEN WithName(after[n - 1], Named[n], text)
        ELSE after[n - 1]
  IN  after[Len(Named)]

\* The pool had a name for each.
Enough(m, found) == \A name \in found : \E k \in DOMAIN m : ToLower(k) = ToLower(name)

Backward(m) == [p \in {m[k] : k \in DOMAIN m} |-> CHOOSE k \in DOMAIN m : m[k] = p]

\* pre_call.  A masked conversation is sent again, message by message.
PreCall(r) ==
  /\ pc[r] \in {"new", "masked"}
  /\ \E found \in {{}, NamesIn(prompt[r])} :
       LET s == SessionOf(r)
           m == Learn(store[s], found, prompt[r])
           text == Replace(prompt[r], m)
       IN  /\ Enough(m, found)
           /\ IF Blank(prompt[r])
              THEN /\ UNCHANGED store
                   /\ asked' = [asked EXCEPT ![r] = prompt[r]]
                   /\ Goto(r, "sent")
              ELSE /\ store' = [store EXCEPT ![s] = m]
                   /\ asked' = [asked EXCEPT ![r] = text]
                   /\ Goto(r, IF pc[r] = "new" /\ text # prompt[r] THEN "masked" ELSE "sent")
  /\ UNCHANGED <<identity, prompt, answer, got, pending, committed, blanked, lapsed>>

\* 502, or a refusal (401, 413, 400): with on_error closed the request ends.
PreCallFails(r) ==
  /\ Faults \cap {"detector", "store", "refused"} # {}
  /\ pc[r] \in {"new", "masked"}
  /\ Goto(r, "failed")
  /\ UNCHANGED <<identity, store, prompt, asked, answer, got, pending, committed, blanked, lapsed>>

\* Variant: the service takes the characters to hold off the text itself.
RestoredCut(r, raw) ==
  LET inverse == Backward(store[SessionOf(r)])
      text == Replace(raw, inverse)
      hold == ComputeHoldback(text, DOMAIN inverse)
  IN  IF text # raw \/ hold > 0
      THEN [action |-> "mask", text |-> SubSeq(text, 1, Len(text) - hold), hold |-> hold]
      ELSE [action |-> "allow", text |-> << >>, hold |-> 0]

\* ReverseStream and the response that is made of it.
Restored(r, raw) ==
  LET inverse == Backward(store[SessionOf(r)])
      text == Replace(raw, inverse)
      hold == ComputeHoldback(text, DOMAIN inverse)
  IN  IF text # raw \/ hold > 0
      THEN [action |-> "mask", text |-> text, hold |-> hold]
      ELSE [action |-> "allow", text |-> << >>, hold |-> 0]

Allowed == [action |-> "allow", text |-> << >>, hold |-> 0]

Accumulated(r) == SubSeq(answer[r], 1, got[r])

\* The text of a during-call: the window, or the answer so far if it is blank.
WindowOf(r) == FirstNonEmpty(pending[r], Accumulated(r))

-----------------------------------------------------------------------------
(* The gateway. *)

\* The model repeats the prompt it was given, or says something else; the
\* answer is streamed or sent whole.
ModelAnswers(r) ==
  /\ pc[r] = "sent"
  /\ answer' \in {[answer EXCEPT ![r] = a] : a \in {asked[r]} \cup Free}
  /\ Goto(r, IF r \in Streamed THEN "streaming" ELSE "whole")
  /\ UNCHANGED <<identity, store, prompt, asked, got, pending, committed, blanked, lapsed>>

Chunk(r) ==
  /\ pc[r] = "streaming"
  /\ \E n \in (got[r] + 1)..Len(answer[r]) :
       /\ got' = [got EXCEPT ![r] = n]
       /\ pending' = [pending EXCEPT ![r] = @ \o SubSeq(answer[r], got[r] + 1, n)]
  /\ Goto(r, "window")
  /\ UNCHANGED <<identity, store, prompt, asked, answer, committed, blanked, lapsed>>

\* A mask replaces the window.  All of it is committed at the end of the
\* stream, before that all but the characters to hold.
Commit(r, response, eof) ==
  LET window == IF response.action = "mask" THEN response.text ELSE pending[r]
      hold == IF eof THEN 0 ELSE IF response.hold > 0 THEN response.hold ELSE DefaultHold
      cut == IF hold < Len(window) THEN Len(window) - hold ELSE 0
  IN  /\ committed' = [committed EXCEPT ![r] = @ \o SubSeq(window, 1, cut)]
      /\ pending' = [pending EXCEPT ![r] = SubSeq(window, cut + 1, Len(window))]
      /\ Goto(r, IF eof THEN "over" ELSE "streaming")

\* Each delta is followed by a during-call; the end of the stream comes with
\* the last delta or behind it.
Calls(r, eof) ==
  \/ pc[r] = "window" /\ ~eof
  \/ pc[r] \in {"window", "streaming"} /\ eof /\ got[r] = Len(answer[r])

During(r) ==
  /\ \E eof \in BOOLEAN :
       Calls(r, eof) /\ Commit(r, Restored(r, WindowOf(r)), eof)
  /\ blanked' = [blanked EXCEPT ![r] = @ \/ Blank(pending[r])]
  /\ UNCHANGED <<identity, store, prompt, asked, answer, got, lapsed>>

\* Best-effort: without the store the window is allowed as it is.
DuringUnavailable(r) ==
  /\ "store" \in Faults
  /\ \E eof \in BOOLEAN : Calls(r, eof) /\ Commit(r, Allowed, eof)
  /\ lapsed' = [lapsed EXCEPT ![r] = TRUE]
  /\ UNCHANGED <<identity, store, prompt, asked, answer, got, blanked>>

\* A refused during-call or post-call ends the answer where it is.
AnswerRefused(r) ==
  /\ "refused" \in Faults
  /\ pc[r] = "whole" \/ \E eof \in BOOLEAN : Calls(r, eof)
  /\ Goto(r, "failed")
  /\ UNCHANGED <<identity, store, prompt, asked, answer, got, pending, committed, blanked, lapsed>>

\* post_call: the whole answer, no text is held back.
PostCall(r) ==
  /\ pc[r] = "whole"
  /\ committed' = [committed EXCEPT ![r] = Replace(answer[r], Backward(store[SessionOf(r)]))]
  /\ Goto(r, "over")
  /\ UNCHANGED <<identity, store, prompt, asked, answer, got, pending, blanked, lapsed>>

PostCallUnavailable(r) ==
  /\ "store" \in Faults
  /\ pc[r] = "whole"
  /\ committed' = [committed EXCEPT ![r] = answer[r]]
  /\ lapsed' = [lapsed EXCEPT ![r] = TRUE]
  /\ Goto(r, "over")
  /\ UNCHANGED <<identity, store, prompt, asked, answer, got, pending, blanked>>

-----------------------------------------------------------------------------
Step(r) ==
  \/ PreCall(r) \/ PreCallFails(r) \/ ModelAnswers(r) \/ Chunk(r)
  \/ During(r) \/ DuringUnavailable(r) \/ AnswerRefused(r)
  \/ PostCall(r) \/ PostCallUnavailable(r)

AllOver == (\A r \in Request : pc[r] \in {"over", "failed"}) /\ UNCHANGED vars

Next == (\E r \in Request : Step(r)) \/ AllOver

Spec == Init /\ [][Next]_vars

-----------------------------------------------------------------------------
Begins(s, t) == Len(s) <= Len(t) /\ SubSeq(t, 1, Len(s)) = s

\* The model repeated the prompt, and no pool name stood in it.
IsEcho(r) ==
  /\ answer[r] = asked[r] /\ pc[r] \in {"streaming", "window", "whole", "over"}
  /\ \A i \in DOMAIN Pool : ~Occurs(Pool[i], prompt[r])

EchoKept(r) ==
  /\ Begins(ToLower(committed[r]), ToLower(prompt[r]))
  /\ pc[r] = "over" => ToLower(committed[r]) = ToLower(prompt[r])

\* When the model repeats its prompt, what the gateway commits is always a
\* beginning of the prompt and in the end all of it, wherever the windows and
\* holds cut it and whatever other requests of the session map meanwhile --
\* as long as no window was blank and the store was there.
WindowsRestored ==
  \A r \in Request : IsEcho(r) /\ ~lapsed[r] /\ ~blanked[r] => EchoKept(r)

\* No pseudonym of the session stands in the answer.
Plain(r) == \A p \in DOMAIN Backward(store[SessionOf(r)]) : ~Occurs(p, answer[r])

\* An answer without a pseudonym of its session is handed over as it is, each
\* character once and in its order, whatever is held between two windows because
\* it might begin a pseudonym, however the session's mapping grows meanwhile and
\* whether the store answers or not -- as long as no window was blank.
PlainAnswerKept ==
  \A r \in Request : Plain(r) /\ ~blanked[r] =>
    /\ Begins(committed[r], answer[r])
    /\ pc[r] \in {"streaming", "window"} => committed[r] \o pending[r] = Accumulated(r)
    /\ pc[r] = "over" => committed[r] = answer[r]

\* Two requests of one session, as far as anything identifies them.
Related(u, r) ==
  \/ u = r
  \/ identity[u].session # NoId /\ identity[u].session = identity[r].session
  \/ identity[u].user # NoId /\ identity[u].user = identity[r].user

Unidentified == [session |-> NoId, user |-> NoId, request |-> NoId]

\* A client sees no name of another session's prompts, however requests are
\* identified, whatever the model says -- requests without any identification
\* excepted, which share a session.
NoForeignName ==
  \A r \in Request : \A i \in DOMAIN Named :
    /\ Occurs(Named[i], committed[r]) /\ ~Occurs(Named[i], answer[r])
    /\ identity[r] # Unidentified
    => \E u \in Request : Occurs(Named[i], prompt[u]) /\ Related(u, r)

-----------------------------------------------------------------------------
(* What the documents say and the code does not do. *)

\* A during-call restores the window, the uncommitted text (guide to the
\* integration), blank or not.
EveryWindowRestored == \A r \in Request : IsEcho(r) /\ ~lapsed[r] => EchoKept(r)
=============================================================================
