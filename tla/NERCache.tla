------------------------------ MODULE NERCache ------------------------------
(***************************************************************************)
(* Concurrent detector calls over the shared cache of the span model's     *)
(* answers.  A call looks its lines up one by one, asks the service for    *)
(* the ones it missed (each distinct line once), stores the answers one by *)
(* one and then validates them all (spansFor, detectNames).  Each cache    *)
(* operation is atomic under its mutex, but reads the clock before it      *)
(* takes the mutex.                                                        *)
(***************************************************************************)
EXTENDS Integers, Sequences, SequencesExt

CONSTANTS
  Call,
  Line,
  LinesOf,    \* the lines of each call's text
  Answer,     \* what the service may answer for a line
  Malformed,  \* answers with a span outside the line
  Capacity,   \* NER_CACHE_MAX_ENTRIES
  TTL,        \* NER_CACHE_TTL
  NoEntry,
  MaxTime     \* bound on the clock

ASSUME LinesAssumption == LinesOf \in [Call -> Seq(Line)]
ASSUME AnswerAssumption == Malformed \subseteq Answer
ASSUME NoEntryAssumption ==
  NoEntry \notin [spans : Answer, expires : Nat] \cup [spans : Answer, time : Nat]
ASSUME CacheAssumption == Capacity \in Nat \ {0} /\ TTL \in Nat \ {0} /\ MaxTime \in Nat

VARIABLES
  clock,
  order,    \* the cached lines, most recently used first
  entry,    \* the spans of a cached line and when they expire
  pc,
  next,     \* the line a call looks up or stores next
  ask,      \* the lines a call asks the service about
  answers,  \* what the service answered, parallel to ask
  out,      \* the spans of a call's lines and the time they were read or stored
  at,       \* when a call took its last step
  said,     \* everything the service ever answered (history)
  stored    \* everything that was ever stored (history)

cache == <<order, entry>>
call == <<pc, next, ask, answers, out, at>>
history == <<said, stored>>
vars == <<clock, cache, call, history>>

\* A cached line, and the answer to a line of a call; neither is NoEntry.
Entry == [spans : Answer, expires : Nat]
Got == [spans : Answer, time : Nat]

\* Type invariant of the calls: the indices of spansFor's loops stay inside
\* its lists.
TypeOK ==
  /\ clock \in 0..MaxTime
  /\ order \in Seq(Line)
  /\ entry \in [Line -> Entry \cup {NoEntry}]
  /\ pc \in [Call -> {"idle", "lookup", "ask", "store", "validate", "done", "failed"}]
  /\ next \in [Call -> Nat \ {0}]
  /\ ask \in [Call -> Seq(Line)]
  /\ answers \in [Call -> Seq(Answer)]
  /\ DOMAIN out = Call
  /\ \A c \in Call : out[c] \in [1..Len(LinesOf[c]) -> Got \cup {NoEntry}]
  /\ at \in [Call -> 0..MaxTime]
  /\ said \subseteq [line : Line, spans : Answer]
  /\ stored \subseteq [line : Line, spans : Answer, time : Nat]

Init ==
  /\ clock = 0
  /\ order = << >>
  /\ entry = [l \in Line |-> NoEntry]
  /\ pc = [c \in Call |-> "idle"]
  /\ next = [c \in Call |-> 1]
  /\ ask = [c \in Call |-> << >>]
  /\ answers = [c \in Call |-> << >>]
  /\ out = [c \in Call |-> [i \in 1..Len(LinesOf[c]) |-> NoEntry]]
  /\ at = [c \in Call |-> 0]
  /\ said = {}
  /\ stored = {}

Goto(c, label) == pc' = [pc EXCEPT ![c] = label]
StepTaken(c) == at' = [at EXCEPT ![c] = clock]

\* The times a call may have read from the clock before it took the mutex.
Now(c) == at[c]..clock

Tick ==
  /\ clock < MaxTime
  /\ clock' = clock + 1
  /\ UNCHANGED <<cache, call, history>>

-----------------------------------------------------------------------------
Begin(c) ==
  /\ pc[c] = "idle"
  /\ Goto(c, IF LinesOf[c] = << >> THEN "done" ELSE "lookup")
  /\ StepTaken(c)
  /\ UNCHANGED <<clock, cache, next, ask, answers, out, history>>

Current(c) == LinesOf[c][next[c]]

\* Variant: the second loop starts before the first line.
AfterLookupAtZero(c) ==
  IF next[c] < Len(LinesOf[c])
  THEN next' = [next EXCEPT ![c] = @ + 1] /\ UNCHANGED pc
  ELSE /\ next' = [next EXCEPT ![c] = 0]
       /\ Goto(c, IF ask'[c] = << >> THEN "validate" ELSE "ask")

\* After a lookup: the next line, or the question to the service, or nothing
\* to ask.
AfterLookup(c) ==
  IF next[c] < Len(LinesOf[c])
  THEN next' = [next EXCEPT ![c] = @ + 1] /\ UNCHANGED pc
  ELSE /\ next' = [next EXCEPT ![c] = 1]
       /\ Goto(c, IF ask'[c] = << >> THEN "validate" ELSE "ask")

Smallest(a, b) == IF a <= b THEN a ELSE b

\* The list without the element the map holds for a line.
Without(list, line) ==
  IF Contains(list, line)
  THEN RemoveAt(list, CHOOSE i \in DOMAIN list : list[i] = line)
  ELSE list

MoveToFront(line) == order' = <<line>> \o Without(order, line)

\* Variant: a read extends the life of the entry.
HitExtends(c, now) ==
  LET line == Current(c)
  IN  /\ entry[line] # NoEntry /\ now < entry[line].expires
      /\ out' = [out EXCEPT ![c][next[c]] = [spans |-> entry[line].spans, time |-> now]]
      /\ entry' = [entry EXCEPT ![line].expires = now + TTL]
      /\ MoveToFront(line)
      /\ UNCHANGED ask

Hit(c, now) ==
  LET line == Current(c)
  IN  /\ entry[line] # NoEntry /\ now < entry[line].expires
      /\ out' = [out EXCEPT ![c][next[c]] = [spans |-> entry[line].spans, time |-> now]]
      /\ MoveToFront(line)
      /\ UNCHANGED <<entry, ask>>

\* A line is asked once however often it occurs; an expired entry is removed.
Miss(c, now) ==
  LET line == Current(c)
  IN  /\ entry[line] # NoEntry => now >= entry[line].expires
      /\ entry' = [entry EXCEPT ![line] = NoEntry]
      /\ order' = Without(order, line)
      /\ ask' = [ask EXCEPT ![c] = IF Contains(@, line) THEN @ ELSE Append(@, line)]
      /\ UNCHANGED out

Lookup(c) ==
  /\ pc[c] = "lookup"
  /\ \E now \in Now(c) : Hit(c, now) \/ Miss(c, now)
  /\ AfterLookup(c)
  /\ StepTaken(c)
  /\ UNCHANGED <<clock, answers, history>>

\* The service answers every line it was asked.
ServiceAnswers(c) ==
  /\ pc[c] = "ask"
  /\ \E results \in [1..Len(ask[c]) -> Answer] :
       /\ answers' = [answers EXCEPT ![c] = results]
       /\ said' = said \cup {[line |-> ask[c][j], spans |-> results[j]] : j \in DOMAIN results}
  /\ Goto(c, "store")
  /\ StepTaken(c)
  /\ UNCHANGED <<clock, cache, next, ask, out, stored>>

\* It is unavailable, or answers fewer or more lines: nothing is stored.
ServiceFails(c) ==
  /\ pc[c] = "ask"
  /\ Goto(c, "failed")
  /\ StepTaken(c)
  /\ UNCHANGED <<clock, cache, next, ask, answers, out, history>>

\* Variant: an entry that is there already is not looked for.
PutNew(line, spans, expires) ==
  /\ entry' = [l \in Line |->
                 IF l = line THEN [spans |-> spans, expires |-> expires]
                 ELSE IF Len(order) >= Capacity /\ order[Capacity] = l THEN NoEntry
                 ELSE entry[l]]
  /\ order' = <<line>> \o SubSeq(order, 1, Smallest(Len(order), Capacity - 1))

\* An entry that is there already is overwritten; else the least recently used
\* entry makes room.
Put(line, spans, expires) ==
  LET others == Without(order, line)
      kept == SubSeq(others, 1, Smallest(Len(others), Capacity - 1))
  IN  /\ order' = <<line>> \o kept
      /\ entry' = [l \in Line |->
                     IF l = line THEN [spans |-> spans, expires |-> expires]
                     ELSE IF Contains(kept, l) THEN entry[l] ELSE NoEntry]

\* Variant: the answer of the line's own index is taken, not that of the index
\* the line was asked under.
AnswerAtIndex(c, i) == answers[c][Smallest(i, Len(answers[c]))]

\* The answer to a call's i-th line.
AnswerTo(c, i) == answers[c][CHOOSE j \in DOMAIN ask[c] : ask[c][j] = LinesOf[c][i]]

\* Variant: the loop does not advance.
AfterStoreAgain(c) == UNCHANGED <<next, pc>>

AfterStore(c) ==
  IF next[c] < Len(LinesOf[c])
  THEN next' = [next EXCEPT ![c] = @ + 1] /\ UNCHANGED pc
  ELSE UNCHANGED next /\ Goto(c, "validate")

\* One round of the loop over the lines: those that were asked are stored.
Store(c) ==
  /\ pc[c] = "store"
  /\ \/ /\ out[c][next[c]] # NoEntry
        /\ UNCHANGED <<cache, out, stored>>
     \/ /\ out[c][next[c]] = NoEntry
        /\ \E now \in Now(c) :
             LET spans == AnswerTo(c, next[c])
             IN  /\ out' = [out EXCEPT ![c][next[c]] = [spans |-> spans, time |-> now]]
                 /\ stored' = stored \cup {[line |-> Current(c), spans |-> spans, time |-> now]}
                 /\ Put(Current(c), spans, now + TTL)
  /\ AfterStore(c)
  /\ StepTaken(c)
  /\ UNCHANGED <<clock, ask, answers, said>>

\* A span outside its line fails the call.
Validate(c) ==
  /\ pc[c] = "validate"
  /\ Goto(c, IF \E i \in DOMAIN out[c] : out[c][i].spans \in Malformed
             THEN "failed" ELSE "done")
  /\ StepTaken(c)
  /\ UNCHANGED <<clock, cache, next, ask, answers, out, history>>

-----------------------------------------------------------------------------
Step(c) ==
  \/ Begin(c) \/ Lookup(c) \/ ServiceAnswers(c) \/ ServiceFails(c)
  \/ Store(c) \/ Validate(c)

AllOver == (\A c \in Call : pc[c] \in {"done", "failed"}) /\ UNCHANGED vars

Next == Tick \/ AllOver \/ \E c \in Call : Step(c)

Spec == Init /\ [][Next]_vars

\* The client's timeout ends a question the service does not answer.
FairSpec == Spec /\ \A c \in Call : WF_vars(Step(c))

-----------------------------------------------------------------------------
\* The list and the map of the cache agree, hold a line once and never more
\* lines than the capacity, whatever calls store the same line.
CacheConsistent ==
  /\ Len(order) <= Capacity
  /\ \A i, j \in DOMAIN order : order[i] = order[j] => i = j
  /\ {order[i] : i \in DOMAIN order} = {l \in Line : entry[l] # NoEntry}

\* A call that succeeds has for each of its lines, repeated ones included, a
\* well-formed answer of the service to that very line.
OwnAnswers ==
  \A c \in Call : pc[c] = "done" =>
    \A i \in DOMAIN LinesOf[c] :
      /\ out[c][i].spans \notin Malformed
      /\ [line |-> LinesOf[c][i], spans |-> out[c][i].spans] \in said

\* An entry lives TTL from when it was stored; reads do not extend it.
NotStale ==
  \A c \in Call : \A i \in DOMAIN out[c] : out[c][i] # NoEntry =>
    \E s \in stored : /\ s.line = LinesOf[c][i] /\ s.spans = out[c][i].spans
                      /\ out[c][i].time - s.time < TTL

\* Every call ends.
CallsEnd == \A c \in Call : pc[c] = "lookup" ~> pc[c] \in {"done", "failed"}
=============================================================================
