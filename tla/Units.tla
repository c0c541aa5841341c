------------------------------- MODULE Units -------------------------------
(***************************************************************************)
(* How a text is cut into the pieces the span model sees (splitUnits):     *)
(* one per line, long lines in overlapping windows (windowLine).  A        *)
(* position is a character index counted from 0; a unit is the interval    *)
(* [from, to).  Of a character only its class matters.                     *)
(***************************************************************************)
EXTENDS Integers, Sequences

CONSTANTS
  Input,     \* the texts
  MaxChars,  \* NER_CHUNK_CHARS; 0 means lines are not cut
  Overlap    \* NER_CHUNK_OVERLAP

\* A letter or other character, a sentence end, white space, a line feed.
Class == {"other", "stop", "space", "newline"}

ASSUME InputAssumption == Input \subseteq Seq(Class)
ASSUME WindowAssumption == MaxChars \in Nat /\ Overlap \in Nat

VARIABLES
  text,
  line,   \* the line being cut, as [from, to)
  start,  \* where its next window starts
  units,  \* the units so far
  phase   \* "lines", "windows" or "done"

vars == <<text, line, start, units, phase>>

Interval == [from : Nat, to : Nat]

At(i) == text[i + 1]
IsSpace(i) == At(i) \in {"space", "newline"}

\* An overlap of half a window or more is replaced by a quarter.
Lap == IF Overlap >= MaxChars \div 2 THEN MaxChars \div 4 ELSE Overlap

\* Type invariant of splitUnits and windowLine.
TypeOK ==
  /\ text \in Input
  /\ line \in Interval
  /\ start \in Nat
  /\ units \subseteq Interval
  /\ phase \in {"lines", "windows", "done"}

Init ==
  /\ text \in Input
  /\ line = [from |-> 0, to |-> 0]
  /\ start = 0
  /\ units = {}
  /\ phase = "lines"

\* The end of the line that begins at pos.
IsLineEnd(pos, end) ==
  /\ end \in pos..Len(text)
  /\ \A i \in pos..(end - 1) : At(i) # "newline"
  /\ end < Len(text) => At(end) = "newline"

\* Variant: the next line is looked for at the line feed itself.
AfterLineAtFeed(end) ==
  /\ line' = [line EXCEPT !.from = end]
  /\ phase' = IF end = Len(text) THEN "done" ELSE "lines"

\* After a line: the next one, or the end of the text.
AfterLine(end) ==
  /\ line' = [line EXCEPT !.from = end + 1]
  /\ phase' = IF end = Len(text) THEN "done" ELSE "lines"

Blank(from, to) == \A i \in from..(to - 1) : IsSpace(i)

Fits(from, to) == MaxChars = 0 \/ to - from <= MaxChars

SkipBlankLine ==
  /\ phase = "lines"
  /\ \E end \in 0..Len(text) :
       /\ IsLineEnd(line.from, end)
       /\ Blank(line.from, end)
       /\ AfterLine(end)
  /\ UNCHANGED <<text, start, units>>

WholeLine ==
  /\ phase = "lines"
  /\ \E end \in 0..Len(text) :
       /\ IsLineEnd(line.from, end)
       /\ ~Blank(line.from, end)
       /\ Fits(line.from, end)
       /\ units' = units \cup {[from |-> line.from, to |-> end]}
       /\ AfterLine(end)
  /\ UNCHANGED <<text, start>>

LongLine ==
  /\ phase = "lines"
  /\ \E end \in 0..Len(text) :
       /\ IsLineEnd(line.from, end)
       /\ ~Blank(line.from, end)
       /\ ~Fits(line.from, end)
       /\ line' = [line EXCEPT !.to = end]
       /\ start' = line.from
       /\ phase' = "windows"
  /\ UNCHANGED <<text, units>>

Larger(a, b) == IF a >= b THEN a ELSE b
Smaller(a, b) == IF a <= b THEN a ELSE b

\* cut is where cutAt ends the window from start to end: after a space that
\* follows a sentence end, else after a space, inside the last Lap characters.
IsCut(end, cut) ==
  LET lo == Larger(start + 1, end - Lap)
      spaces == {i \in lo..(end - 1) : IsSpace(i)}
      stops == {i \in spaces \ {lo} : At(i - 1) = "stop"}
      last(S, i) == i \in S /\ \A j \in S : j <= i
  IN  IF stops # {} THEN \E i \in stops : last(stops, i) /\ cut = i + 1
      ELSE IF spaces # {} THEN \E i \in spaces : last(spaces, i) /\ cut = i + 1
      ELSE cut = end

\* Variant: the next window begins where the last one ended.
IsNextAtCut(end, next) == next = end

\* Variant: the search for a word start may pass the cut.
IsNextPastCut(end, next) ==
  LET base == Larger(end - Lap, start + 1)
  IN  /\ next \in base..(end + 1)
      /\ next > end \/ IsSpace(next - 1)
      /\ \A n \in base..(next - 1) : ~IsSpace(n - 1)

\* Where the next window begins: Lap characters before the cut, on a word start.
IsNext(end, next) ==
  LET base == Larger(end - Lap, start + 1)
  IN  /\ next \in base..Larger(base, end)
      /\ next >= end \/ IsSpace(next - 1)
      /\ \A n \in base..(next - 1) : ~IsSpace(n - 1)

Window ==
  /\ phase = "windows"
  /\ start + MaxChars < line.to
  /\ \E cut \in start..line.to, next \in start..line.to :
       /\ IsCut(start + MaxChars, cut)
       /\ IsNext(cut, next)
       /\ units' = units \cup {[from |-> start, to |-> cut]}
       /\ start' = next
  /\ UNCHANGED <<text, line, phase>>

\* Variant: a short rest is added to the window before it.
LastWindowLonger ==
  /\ phase = "windows"
  /\ start + MaxChars + Lap >= line.to
  /\ units' = units \cup {[from |-> start, to |-> line.to]}
  /\ AfterLine(line.to)
  /\ UNCHANGED <<text, start>>

LastWindow ==
  /\ phase = "windows"
  /\ start + MaxChars >= line.to
  /\ units' = units \cup {[from |-> start, to |-> line.to]}
  /\ AfterLine(line.to)
  /\ UNCHANGED <<text, start>>

Done == phase = "done" /\ UNCHANGED vars

Next == SkipBlankLine \/ WholeLine \/ LongLine \/ Window \/ LastWindow \/ Done

Spec == Init /\ [][Next]_vars

-----------------------------------------------------------------------------
Inside(from, to, unit) == unit.from <= from /\ to <= unit.to

\* The model sees every character of the text that is not white space.
EverythingSeen ==
  phase = "done" =>
    \A i \in 0..(Len(text) - 1) :
      ~IsSpace(i) => \E u \in units : Inside(i, i + 1, u)

\* A name on the edge of a window is seen whole in another: every piece of a
\* line that starts a word and is at most Lap characters long is in one unit
\* (comment of windowLine).
NamesSeenWhole ==
  phase = "done" =>
    \A from \in 0..(Len(text) - 1), to \in 1..Len(text) :
      /\ from < to /\ to - from <= Lap
      /\ ~IsSpace(from)
      /\ from = 0 \/ IsSpace(from - 1)
      /\ \A i \in from..(to - 1) : At(i) # "newline"
      => \E u \in units : Inside(from, to, u)

\* No unit is longer than a window or crosses a line feed.
UnitsFit ==
  \A u \in units :
    /\ u.from < u.to /\ u.to <= Len(text)
    /\ Fits(u.from, u.to)
    /\ \A i \in u.from..(u.to - 1) : At(i) # "newline"

-----------------------------------------------------------------------------
(* The inductive invariant behind the first and the third. *)

\* Up to where the text has been dealt with.
Frontier == CASE phase = "lines" -> line.from
              [] phase = "windows" -> start
              [] phase = "done" -> Len(text)

\* The line that is being cut is a line, and there is a rest of it.
LineKept ==
  /\ phase = "lines" => line.from <= Len(text)
  /\ phase = "windows" =>
       /\ MaxChars > 0
       /\ line.from <= start /\ start < line.to
       /\ IsLineEnd(line.from, line.to)

SeenSoFar ==
  \A i \in 0..(Len(text) - 1) :
    i < Frontier /\ ~IsSpace(i) => \E u \in units : Inside(i, i + 1, u)

\* The conjunction that is inductive for splitUnits and windowLine.
IInv == TypeOK /\ LineKept /\ SeenSoFar /\ UnitsFit

=============================================================================
