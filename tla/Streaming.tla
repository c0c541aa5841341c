----------------------------- MODULE Streaming -----------------------------
(***************************************************************************)
(* One streamed answer.  The prompt is rewritten with the session's        *)
(* mapping; the model's answer arrives in chunks; the gateway samples the  *)
(* text accumulated so far, which the guardrail restores (ReverseStream),  *)
(* and emits what is new in it except the characters to hold back; at the  *)
(* end of the stream it emits the rest.  A sample may be skipped, repeated *)
(* or fail.  The gateway is external: PROTOCOL.md and the algorithm        *)
(* document say what it does with an answer of this service.               *)
(***************************************************************************)
EXTENDS Replacer

CONSTANTS
  Prompt,   \* the texts a user may send
  Forward,  \* the session's mapping
  Backward,  \* its inverse
  Free,     \* answers the model may give besides repeating its prompt
  Fallible  \* whether a sample can find the store unavailable

ASSUME StreamAssumption ==
  /\ Prompt \cup Free \subseteq Seq(Char)
  /\ DOMAIN Forward \subseteq Seq(Char) \ {<< >>}
  /\ \A k \in DOMAIN Forward : Forward[k] \in Seq(Char) \ {<< >>}
  /\ DOMAIN Backward = {Forward[k] : k \in DOMAIN Forward}
  /\ \A p \in DOMAIN Backward : Backward[p] \in DOMAIN Forward /\ Forward[Backward[p]] = p
  /\ Fallible \in BOOLEAN

VARIABLES
  prompt,
  answer,   \* what the model says, all of it
  got,      \* the number of its characters that have arrived
  sent,     \* what the client has been sent
  phase,    \* "ask", "stream" or "closed"
  lapsed    \* whether a sample found the store unavailable (history)

vars == <<prompt, answer, got, sent, phase, lapsed>>

Init ==
  /\ prompt \in Prompt
  /\ answer = << >>
  /\ got = 0
  /\ sent = << >>
  /\ phase = "ask"
  /\ lapsed = FALSE

Echo == Replace(prompt, Forward)

\* The model repeats the prompt it was given, or says something else.
Ask ==
  /\ phase = "ask"
  /\ answer' \in {Echo} \cup Free
  /\ phase' = "stream"
  /\ UNCHANGED <<prompt, got, sent, lapsed>>

Chunk ==
  /\ phase = "stream"
  /\ got' \in (got + 1)..Len(answer)
  /\ UNCHANGED <<prompt, answer, sent, phase, lapsed>>

Accumulated == SubSeq(answer, 1, got)

\* The text restored, and how much of its end may be the beginning of a
\* pseudonym.
ReverseStream(raw) ==
  LET rewritten == Replace(raw, Backward)
  IN  [text |-> rewritten, holdback |-> ComputeHoldback(rewritten, DOMAIN Backward)]

\* Type invariant of a stream: no more characters arrive than the answer has, and
\* a sample taken now, at any cut of the answer, would not hold back more
\* characters than its restored text has -- the gateway slices that many off its
\* end (ReverseStream, ComputeHoldback).
TypeOK ==
  /\ prompt \in Prompt
  /\ answer \in Seq(Char)
  /\ got \in 0..Len(answer)
  /\ sent \in Seq(Char)
  /\ phase \in {"ask", "stream", "closed"}
  /\ lapsed \in BOOLEAN
  /\ LET response == ReverseStream(Accumulated)
     IN  response.holdback \in 0..Len(response.text)

\* The gateway emits what is longer than what it has already sent.
Emit(text, holdback) ==
  sent \o SubSeq(text, Len(sent) + 1, Len(text) - holdback)

Sample ==
  /\ phase = "stream"
  /\ LET response == ReverseStream(Accumulated)
     IN  sent' = Emit(response.text, response.holdback)
  /\ UNCHANGED <<prompt, answer, got, phase, lapsed>>

\* The store is away: NONE, the sample flows unchanged.
SampleUnavailable ==
  /\ Fallible
  /\ phase = "stream"
  /\ sent' = Emit(Accumulated, 0)
  /\ lapsed' = TRUE
  /\ UNCHANGED <<prompt, answer, got, phase>>

\* The end of the stream: nothing is held back any more.
Close ==
  /\ phase = "stream"
  /\ got = Len(answer)
  /\ sent' = Emit(ReverseStream(Accumulated).text, 0)
  /\ phase' = "closed"
  /\ UNCHANGED <<prompt, answer, got, lapsed>>

Closed == phase = "closed" /\ UNCHANGED vars

Next == Ask \/ Chunk \/ Sample \/ SampleUnavailable \/ Close \/ Closed

Spec == Init /\ [][Next]_vars

-----------------------------------------------------------------------------
Begins(s, t) == Len(s) <= Len(t) /\ SubSeq(t, 1, Len(s)) = s

\* When the model repeats its prompt, the client sees the prompt again: at
\* every moment a beginning of it, in the end all of it (in any case), however
\* the answer was cut into chunks and samples.  No half of a pseudonym and no
\* pseudonym in place of a name is ever sent.
EchoRestored ==
  answer = Echo /\ phase # "ask" /\ ~lapsed =>
    /\ Begins(ToLower(sent), ToLower(prompt))
    /\ phase = "closed" => ToLower(sent) = ToLower(prompt)

\* The keys in a text stand apart: none is the beginning of a longer one there,
\* each is a word of its own in every beginning of the text that holds it, none
\* overlaps another, and something is between them.
Apart(text, mapping) ==
  LET keysAt(i) == {k \in DOMAIN mapping : OccursAt(text, i, k)}
      hits == {i \in 1..Len(text) : keysAt(i) # {}}
  IN  \A i \in hits :
        /\ \A k, l \in keysAt(i) : Len(k) = Len(l)
        /\ LeftBoundaryClear(text, i)
        /\ \A k \in keysAt(i) : \A m \in (i + Len(k) - 1)..Len(text) :
             LET beginning == SubSeq(text, 1, m)
             IN  RightBoundaryClear(beginning, Match(beginning, i, mapping).next)
        /\ \A j \in hits : j <= i \/ j > Match(text, i, mapping).next

\* Whatever the model says: where the pseudonyms of its answer stand apart, the
\* client has at every moment a beginning of the restored answer, and in the end
\* all of it.  Nothing is sent that a later sample would restore (ReverseStream,
\* ComputeHoldback).
AnswerRestored ==
  phase # "ask" /\ ~lapsed /\ Apart(answer, Backward) =>
    /\ Begins(sent, Replace(answer, Backward))
    /\ phase = "closed" => sent = Replace(answer, Backward)

\* The keys that stand in a text as whole words.
Names(text, mapping) ==
  {name \in (1..Len(text)) \X DOMAIN mapping :
     /\ OccursAt(text, name[1], name[2])
     /\ LeftBoundaryClear(text, name[1])
     /\ RightBoundaryClear(text, name[1] + Len(name[2]))}

\* A mapped name does not reach the model as a word of its own -- unless it is
\* part of what looked like a longer name and was not, or an apostrophe glues
\* it to the next word.
NamesRewritten ==
  \A name \in Names(Echo, Forward) :
    LET i == name[1]
        behind == i + Len(name[2])
    IN  \/ \E k \in DOMAIN Forward, j \in 1..i :
             Len(k) > Len(name[2]) /\ OccursAt(Echo, j, k) /\ j + Len(k) > i
        \/ \E e \in Ending :
             OccursAt(Echo, behind, e) /\ ~RightBoundaryClear(Echo, behind + Len(e))

\* A mapped name never reaches the model in clear (comment of Pseudonymize).
NoNameLeft == Names(Echo, Forward) = {}
=============================================================================
