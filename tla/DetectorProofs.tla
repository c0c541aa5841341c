--------------------------- MODULE DetectorProofs ---------------------------
(***************************************************************************)
(* For every text, configuration, service and deny-list: the model sees    *)
(* every character that is not white space, in units that fit its window   *)
(* and stay on one line; and detection finds exactly what it should where  *)
(* something stands, types what it finds and loses no deny-listed term.    *)
(***************************************************************************)
EXTENDS Detector, FiniteSetTheorems, WellFoundedInduction, TLAPS

-----------------------------------------------------------------------------
(* How a text is cut into units (Units). *)

\* A text has a length, and its characters have a class.
LEMMA TextIsSequence ==
  ASSUME TypeOK
  PROVE  text \in Seq(Class) /\ Len(text) \in Nat
<1> QED BY InputAssumption DEF TypeOK

\* The overlap used is a number, whatever was configured.
LEMMA LapIsNat == Lap \in Nat
<1> QED BY WindowAssumption DEF Lap

\* cutAt ends a window inside it, behind its first character.
LEMMA CutInside ==
  ASSUME NEW from \in Nat, start = from, NEW end \in Nat, NEW cut \in Nat,
         from < end, IsCut(end, cut)
  PROVE  from < cut /\ cut <= end
<1> DEFINE lo == Larger(start + 1, end - Lap)
           spaces == {i \in lo..(end - 1) : IsSpace(i)}
           stops == {i \in spaces \ {lo} : At(i - 1) = "stop"}
<1>1. lo \in Int /\ from + 1 <= lo
  BY LapIsNat DEF Larger
<1>2. \A i \in spaces : i \in Int /\ from < i + 1 /\ i + 1 <= end
  BY <1>1
<1>3. \A i \in stops : i \in spaces
  OBVIOUS
<1>4. cut = end \/ (\E i \in spaces : cut = i + 1)
  BY <1>3 DEF IsCut
<1> QED BY <1>2, <1>4

\* The first window begins nothing, and each window adds a covered interval.
LEMMA InitIInv == Init => IInv
<1> SUFFICES ASSUME Init PROVE IInv
  OBVIOUS
<1>1. TypeOK
  BY DEF Init, TypeOK, Interval
<1>2. LineKept
  BY <1>1, TextIsSequence DEF Init, LineKept
<1>3. SeenSoFar
  BY <1>1, TextIsSequence DEF Init, SeenSoFar, Frontier
<1>4. UnitsFit
  BY DEF Init, UnitsFit
<1> QED BY <1>1, <1>2, <1>3, <1>4 DEF IInv

\* The frontier never runs ahead of what the units cover.
LEMMA NextIInv == IInv /\ [Next]_vars => IInv'
<1> SUFFICES ASSUME IInv, [Next]_vars PROVE IInv'
  OBVIOUS
<1> USE DEF IInv
<1>t. text \in Seq(Class) /\ Len(text) \in Nat
  BY TextIsSequence
<1>1. CASE SkipBlankLine
  <2>1. PICK end \in 0..Len(text) : /\ IsLineEnd(line.from, end)
                                    /\ Blank(line.from, end)
                                    /\ AfterLine(end)
    BY <1>1 DEF SkipBlankLine
  <2>2. phase = "lines" /\ UNCHANGED <<text, start, units>>
    BY <1>1 DEF SkipBlankLine
  <2>3. line \in Interval /\ line.from \in Nat /\ line.from <= end
    BY <2>1, <1>t DEF TypeOK, Interval, IsLineEnd
  <2>4. line' = [from |-> end + 1, to |-> line.to]
    BY <2>1, <2>3 DEF AfterLine, Interval
  <2>5. TypeOK'
    BY <2>1, <2>2, <2>3, <2>4 DEF TypeOK, AfterLine, Interval
  <2>6. phase' = IF end = Len(text) THEN "done" ELSE "lines"
    BY <2>1 DEF AfterLine
  <2>7. LineKept'
    BY <2>1, <2>2, <2>4, <2>6, <1>t DEF LineKept
  <2>8. SeenSoFar'
    <3> SUFFICES ASSUME NEW i \in 0..(Len(text) - 1), i < Frontier', ~IsSpace(i)
                 PROVE  \E u \in units : Inside(i, i + 1, u)
      BY <2>2 DEF SeenSoFar, IsSpace, At
    <3>1. i <= end
      BY <2>2, <2>4, <2>6, <1>t DEF Frontier
    <3>2. CASE i < line.from
      BY <3>2, <2>2 DEF SeenSoFar, Frontier
    <3>3. CASE i >= line.from
      <4>1. i # end
        BY <2>1, <1>t DEF IsLineEnd, IsSpace
      <4> QED BY <4>1, <3>1, <3>3, <2>1, <2>3 DEF Blank
    <3> QED BY <3>2, <3>3, <2>3
  <2>9. UnitsFit'
    BY <2>2 DEF UnitsFit, At
  <2> QED BY <2>5, <2>7, <2>8, <2>9
<1>2. CASE WholeLine
  <2>1. PICK end \in 0..Len(text) : /\ IsLineEnd(line.from, end)
                                    /\ ~Blank(line.from, end)
                                    /\ Fits(line.from, end)
                                    /\ units' = units \cup {[from |-> line.from, to |-> end]}
                                    /\ AfterLine(end)
    BY <1>2 DEF WholeLine
  <2>2. phase = "lines" /\ UNCHANGED <<text, start>>
    BY <1>2 DEF WholeLine
  <2>3. line \in Interval /\ line.from \in Nat /\ line.from < end
    BY <2>1, <1>t DEF TypeOK, Interval, IsLineEnd, Blank
  <2>4. line' = [from |-> end + 1, to |-> line.to]
    BY <2>1, <2>3 DEF AfterLine, Interval
  <2>5. TypeOK'
    BY <2>1, <2>2, <2>3, <2>4 DEF TypeOK, AfterLine, Interval
  <2>6. phase' = IF end = Len(text) THEN "done" ELSE "lines"
    BY <2>1 DEF AfterLine
  <2>7. LineKept'
    BY <2>1, <2>2, <2>4, <2>6, <1>t DEF LineKept
  <2>8. SeenSoFar'
    <3> SUFFICES ASSUME NEW i \in 0..(Len(text) - 1), i < Frontier', ~IsSpace(i)
                 PROVE  \E u \in units' : Inside(i, i + 1, u)
      BY <2>2 DEF SeenSoFar, IsSpace, At
    <3>1. i <= end
      BY <2>2, <2>4, <2>6, <1>t DEF Frontier
    <3>2. CASE i < line.from
      BY <3>2, <2>1, <2>2 DEF SeenSoFar, Frontier
    <3>3. CASE i >= line.from
      <4>1. i # end
        BY <2>1, <1>t DEF IsLineEnd, IsSpace
      <4>2. Inside(i, i + 1, [from |-> line.from, to |-> end])
        BY <4>1, <3>1, <3>3, <2>3 DEF Inside
      <4> QED BY <4>2, <2>1
    <3> QED BY <3>2, <3>3, <2>3
  <2>9. UnitsFit'
    <3>1. \A u \in units : /\ u.from < u.to /\ u.to <= Len(text)
                           /\ Fits(u.from, u.to)
                           /\ \A i \in u.from..(u.to - 1) : At(i) # "newline"
      BY DEF UnitsFit
    <3>2. \A i \in line.from..(end - 1) : At(i) # "newline"
      BY <2>1 DEF IsLineEnd
    <3> QED BY <3>1, <3>2, <2>1, <2>2, <2>3 DEF UnitsFit, At, Fits
  <2> QED BY <2>5, <2>7, <2>8, <2>9
<1>3. CASE LongLine
  <2>1. PICK end \in 0..Len(text) : /\ IsLineEnd(line.from, end)
                                    /\ ~Blank(line.from, end)
                                    /\ ~Fits(line.from, end)
                                    /\ line' = [line EXCEPT !.to = end]
    BY <1>3 DEF LongLine
  <2>2. /\ phase = "lines" /\ phase' = "windows" /\ start' = line.from
        /\ UNCHANGED <<text, units>>
    BY <1>3 DEF LongLine
  <2>3. line \in Interval /\ line.from \in Nat /\ line.from < end
    BY <2>1, <1>t DEF TypeOK, Interval, IsLineEnd, Blank
  <2>4. line' = [from |-> line.from, to |-> end]
    BY <2>1, <2>3 DEF Interval
  <2>5. TypeOK'
    BY <2>1, <2>2, <2>3, <2>4 DEF TypeOK, Interval
  <2>6. LineKept'
    <3>1. MaxChars > 0
      BY <2>1, WindowAssumption DEF Fits
    <3>2. IsLineEnd(line.from, end)'
      BY <2>1, <2>2, <2>3, <2>4 DEF IsLineEnd, At
    <3> QED BY <3>1, <3>2, <2>1, <2>2, <2>3, <2>4 DEF LineKept, IsLineEnd, At
  <2>7. SeenSoFar'
    BY <2>2, <2>4 DEF SeenSoFar, Frontier, IsSpace, At
  <2>8. UnitsFit'
    BY <2>2 DEF UnitsFit, At
  <2> QED BY <2>5, <2>6, <2>7, <2>8
<1>4. CASE Window
  <2> DEFINE end == start + MaxChars
  <2>1. PICK cut \in start..line.to, next \in start..line.to :
          /\ IsCut(end, cut) /\ IsNext(cut, next)
          /\ units' = units \cup {[from |-> start, to |-> cut]}
          /\ start' = next
    BY <1>4 DEF Window
  <2>2. /\ phase = "windows" /\ end < line.to
        /\ UNCHANGED <<text, line, phase>>
    BY <1>4 DEF Window
  <2>3. /\ start \in Nat /\ line \in Interval /\ line.to \in Nat /\ line.from \in Nat
        /\ MaxChars \in Nat /\ MaxChars > 0 /\ line.from <= start
        /\ IsLineEnd(line.from, line.to) /\ line.to <= Len(text)
    BY <2>2, <1>t, WindowAssumption DEF TypeOK, LineKept, Interval, IsLineEnd
  <2>4. cut \in Nat /\ next \in Nat
    BY <2>1, <2>3
  <2>5. start < cut /\ cut <= end
    <3> HIDE DEF end
    <3>1. end \in Nat /\ start < end
      BY <2>3 DEF end
    <3> QED BY <3>1, <2>1, <2>3, <2>4, CutInside
  <2>6. start <= next /\ next <= cut
    BY <2>1, <2>3, <2>4, <2>5, LapIsNat DEF IsNext, Larger
  <2>7. TypeOK'
    BY <2>1, <2>2, <2>3, <2>4 DEF TypeOK, Interval
  <2>8. LineKept'
    BY <2>1, <2>2, <2>3, <2>4, <2>5, <2>6 DEF LineKept, IsLineEnd, At
  <2>9. SeenSoFar'
    <3> SUFFICES ASSUME NEW i \in 0..(Len(text) - 1), i < next, ~IsSpace(i)
                 PROVE  \E u \in units' : Inside(i, i + 1, u)
      BY <2>1, <2>2 DEF SeenSoFar, Frontier, IsSpace, At
    <3>1. CASE i < start
      BY <3>1, <2>1, <2>2 DEF SeenSoFar, Frontier
    <3>2. CASE i >= start
      <4>1. Inside(i, i + 1, [from |-> start, to |-> cut])
        BY <3>2, <2>4, <2>6 DEF Inside
      <4> QED BY <4>1, <2>1
    <3> QED BY <3>1, <3>2, <2>3
  <2>10. UnitsFit'
    <3>1. \A u \in units : /\ u.from < u.to /\ u.to <= Len(text)
                           /\ Fits(u.from, u.to)
                           /\ \A i \in u.from..(u.to - 1) : At(i) # "newline"
      BY DEF UnitsFit
    <3>2. \A i \in start..(cut - 1) : At(i) # "newline"
      BY <2>1, <2>3, <2>4 DEF IsLineEnd
    <3>3. Fits(start, cut) /\ cut <= Len(text)
      BY <2>1, <2>3, <2>4, <2>5 DEF Fits
    <3> QED BY <3>1, <3>2, <3>3, <2>1, <2>2, <2>5 DEF UnitsFit, At, Fits
  <2> QED BY <2>7, <2>8, <2>9, <2>10
<1>5. CASE LastWindow
  <2>1. /\ phase = "windows" /\ start + MaxChars >= line.to
        /\ units' = units \cup {[from |-> start, to |-> line.to]}
        /\ AfterLine(line.to)
        /\ UNCHANGED <<text, start>>
    BY <1>5 DEF LastWindow
  <2>2. /\ start \in Nat /\ line \in Interval /\ line.to \in Nat /\ line.from \in Nat
        /\ MaxChars \in Nat /\ line.from <= start /\ start < line.to
        /\ IsLineEnd(line.from, line.to) /\ line.to <= Len(text)
    BY <2>1, <1>t, WindowAssumption DEF TypeOK, LineKept, Interval, IsLineEnd
  <2>3. line' = [from |-> line.to + 1, to |-> line.to]
    BY <2>1, <2>2 DEF AfterLine, Interval
  <2>4. phase' = IF line.to = Len(text) THEN "done" ELSE "lines"
    BY <2>1 DEF AfterLine
  <2>5. TypeOK'
    BY <2>1, <2>2, <2>3, <2>4 DEF TypeOK, Interval
  <2>6. LineKept'
    BY <2>1, <2>2, <2>3, <2>4, <1>t DEF LineKept
  <2>7. SeenSoFar'
    <3> SUFFICES ASSUME NEW i \in 0..(Len(text) - 1), i < Frontier', ~IsSpace(i)
                 PROVE  \E u \in units' : Inside(i, i + 1, u)
      BY <2>1 DEF SeenSoFar, IsSpace, At
    <3>1. i <= line.to
      BY <2>1, <2>2, <2>3, <2>4, <1>t DEF Frontier
    <3>2. CASE i < start
      BY <3>2, <2>1 DEF SeenSoFar, Frontier
    <3>3. CASE i >= start
      <4>1. i # line.to
        BY <2>2, <1>t DEF IsLineEnd, IsSpace
      <4>2. Inside(i, i + 1, [from |-> start, to |-> line.to])
        BY <4>1, <3>1, <3>3, <2>2 DEF Inside
      <4> QED BY <4>2, <2>1
    <3> QED BY <3>2, <3>3, <2>2
  <2>8. UnitsFit'
    <3>1. \A u \in units : /\ u.from < u.to /\ u.to <= Len(text)
                           /\ Fits(u.from, u.to)
                           /\ \A i \in u.from..(u.to - 1) : At(i) # "newline"
      BY DEF UnitsFit
    <3>2. \A i \in start..(line.to - 1) : At(i) # "newline"
      BY <2>2 DEF IsLineEnd
    <3>3. Fits(start, line.to)
      BY <2>1, <2>2 DEF Fits
    <3> QED BY <3>1, <3>2, <3>3, <2>1, <2>2 DEF UnitsFit, At, Fits
  <2> QED BY <2>5, <2>6, <2>7, <2>8
<1>6. CASE Done \/ UNCHANGED vars
  <2>1. UNCHANGED vars
    BY <1>6 DEF Done
  <2>2. UNCHANGED <<text, line, start, units, phase>>
    BY <2>1 DEF vars
  <2>3. TypeOK'
    BY <2>2 DEF TypeOK
  <2>4. LineKept'
    BY <2>2 DEF LineKept, IsLineEnd, At
  <2>5. SeenSoFar'
    BY <2>2 DEF SeenSoFar, Frontier, IsSpace, At
  <2>6. UnitsFit'
    BY <2>2 DEF UnitsFit, At
  <2> QED BY <2>3, <2>4, <2>5, <2>6
<1> QED BY <1>1, <1>2, <1>3, <1>4, <1>5, <1>6 DEF Next

\* The inductive invariant holds while a text is being cut.
LEMMA Invariance == Spec => []IInv
<1> QED BY InitIInv, NextIInv, PTL DEF Spec

\* Every character that is not white space is in a unit the model sees
\* (splitUnits, windowLine).
THEOREM AllSeen == Spec => []EverythingSeen
<1>1. IInv => EverythingSeen
  BY TextIsSequence DEF IInv, SeenSoFar, Frontier, EverythingSeen
<1> QED BY <1>1, Invariance, PTL

\* No unit is longer than a window, empty, or crosses a line feed
\* (windowLine, cutAt).
THEOREM AllUnitsFit == Spec => []UnitsFit
<1>1. IInv => UnitsFit
  BY DEF IInv
<1> QED BY <1>1, Invariance, PTL

-----------------------------------------------------------------------------
(* Names on the edge of a window. *)

\* The overlap used is at most half a window.
LEMMA LapIsHalf == Lap + Lap <= MaxChars
<1>1. MaxChars \div 4 \in Nat /\ 4 * (MaxChars \div 4) <= MaxChars
  BY WindowAssumption
<1>2. MaxChars \div 2 \in Nat /\ 2 * (MaxChars \div 2) <= MaxChars
  BY WindowAssumption
<1>3. CASE Overlap >= MaxChars \div 2
  BY <1>1, <1>3, WindowAssumption DEF Lap
<1>4. CASE ~(Overlap >= MaxChars \div 2)
  BY <1>2, <1>4, WindowAssumption DEF Lap
<1> QED BY <1>3, <1>4

\* cutAt goes back by less than the overlap.
LEMMA CutLate ==
  ASSUME NEW end \in Nat, NEW cut \in Nat, start \in Nat, start < end, IsCut(end, cut)
  PROVE  end - Lap < cut \/ cut = end
<1> DEFINE lo == Larger(start + 1, end - Lap)
           spaces == {i \in lo..(end - 1) : IsSpace(i)}
           stops == {i \in spaces \ {lo} : At(i - 1) = "stop"}
<1>1. lo \in Int /\ end - Lap <= lo
  BY LapIsNat DEF Larger
<1>2. \A i \in spaces : i \in Int /\ end - Lap < i + 1
  BY <1>1, LapIsNat
<1>3. \A i \in stops : i \in spaces
  OBVIOUS
<1>4. cut = end \/ (\E i \in spaces : cut = i + 1)
  BY <1>3 DEF IsCut
<1> QED BY <1>2, <1>4

\* A piece of a line that starts a word and is no longer than the overlap.
Piece(from, to) ==
  /\ from < to /\ to - from <= Lap
  /\ ~IsSpace(from)
  /\ from = 0 \/ IsSpace(from - 1)
  /\ \A i \in from..(to - 1) : At(i) # "newline"

\* Every such piece that begins before the frontier is in one unit.
WholeSoFar ==
  \A from \in 0..(Len(text) - 1), to \in 1..Len(text) :
    Piece(from, to) /\ from < Frontier => \E u \in units : Inside(from, to, u)

\* A piece of a line ends where the line does, or before.
LEMMA PieceInLine ==
  ASSUME TypeOK, NEW pos \in Nat, NEW end \in Nat, IsLineEnd(pos, end),
         NEW from \in 0..(Len(text) - 1), NEW to \in 1..Len(text), Piece(from, to),
         pos <= from, from <= end
  PROVE  from < end /\ to <= end
<1>1. Len(text) \in Nat
  BY TextIsSequence
<1>2. end <= Len(text) /\ (end < Len(text) => At(end) = "newline")
  BY DEF IsLineEnd
<1>3. end < Len(text) => end \notin from..(to - 1)
  BY <1>2 DEF Piece
<1> QED BY <1>1, <1>2, <1>3 DEF Piece

\* A piece that begins in a window before the next one is in the window.
LEMMA PieceInWindow ==
  ASSUME start \in Nat, MaxChars > 0, NEW cut \in Nat, NEW next \in Nat,
         start < cut, IsCut(start + MaxChars, cut), IsNext(cut, next),
         NEW from \in Nat, NEW to \in Nat, Piece(from, to), start <= from, from < next
  PROVE  to <= cut
<1> DEFINE base == Larger(cut - Lap, start + 1)
<1>1. MaxChars \in Nat /\ Lap \in Nat /\ Lap + Lap <= MaxChars
  BY WindowAssumption, LapIsNat, LapIsHalf
<1>2. start + MaxChars - Lap < cut \/ cut = start + MaxChars
  <2>1. \A end \in Nat : start < end /\ IsCut(end, cut) => end - Lap < cut \/ cut = end
    BY CutLate
  <2>2. start + MaxChars \in Nat /\ start < start + MaxChars
    BY <1>1
  <2> QED BY <1>1, <2>1, <2>2
<1>3. base \in Int /\ cut - Lap <= base /\ start + 1 <= base
      /\ (base = cut - Lap \/ base = start + 1)
  BY <1>1 DEF Larger
<1>4. from < base
  <2> SUFFICES ASSUME base <= from PROVE FALSE
    BY <1>3
  <2>1. from \in base..(next - 1)
    BY <1>3
  <2>2. ~IsSpace(from - 1)
    BY <2>1 DEF IsNext
  <2>3. from # 0
    BY <1>3
  <2> QED BY <2>2, <2>3 DEF Piece
<1>5. to - from <= Lap /\ from < to
  BY DEF Piece
<1>6. CASE base = cut - Lap
  BY <1>1, <1>4, <1>5, <1>6
<1>7. CASE base = start + 1
  BY <1>1, <1>2, <1>4, <1>5, <1>7
<1> QED BY <1>3, <1>6, <1>7

\* The frontier never runs ahead of the pieces that are seen whole.
LEMMA NextWhole == IInv /\ WholeSoFar /\ [Next]_vars => WholeSoFar'
<1> SUFFICES ASSUME IInv, WholeSoFar, [Next]_vars,
                    NEW from \in 0..(Len(text') - 1), NEW to \in 1..Len(text'),
                    Piece(from, to)', from < Frontier'
             PROVE  \E u \in units' : Inside(from, to, u)
  BY DEF WholeSoFar
<1>1. TypeOK /\ LineKept /\ text \in Seq(Class) /\ Len(text) \in Nat
  BY TextIsSequence DEF IInv
<1>2. text' = text /\ units \subseteq units'
  BY DEF Next, SkipBlankLine, WholeLine, LongLine, Window, LastWindow, Done, vars
<1>3. Piece(from, to) /\ from \in 0..(Len(text) - 1) /\ to \in 1..Len(text)
      /\ from \in Nat /\ to \in Nat
  BY <1>1, <1>2 DEF Piece, IsSpace, At
<1>4. CASE from < Frontier
  BY <1>2, <1>3, <1>4 DEF WholeSoFar
<1>5. CASE ~(from < Frontier)
  <2>1. CASE SkipBlankLine \/ WholeLine
    <3>1. PICK end \in 0..Len(text) :
            /\ phase = "lines" /\ IsLineEnd(line.from, end) /\ AfterLine(end)
            /\ \/ Blank(line.from, end)
               \/ units' = units \cup {[from |-> line.from, to |-> end]}
      BY <2>1 DEF SkipBlankLine, WholeLine
    <3>2. line \in Interval /\ line.from \in Nat /\ end \in Nat
      BY <1>1 DEF TypeOK, Interval
    <3>3. line' = [from |-> end + 1, to |-> line.to]
      BY <3>1, <3>2 DEF AfterLine, Interval
    <3>4. phase' = IF end = Len(text) THEN "done" ELSE "lines"
      BY <3>1 DEF AfterLine
    <3>5. line.from <= from /\ from <= end
      BY <1>1, <1>2, <1>3, <1>5, <3>1, <3>2, <3>3, <3>4 DEF Frontier
    <3>6. from < end /\ to <= end
      BY <1>1, <1>3, <3>1, <3>2, <3>5, PieceInLine
    <3>7. ~Blank(line.from, end)
      BY <1>3, <3>2, <3>5, <3>6 DEF Blank, Piece
    <3>8. Inside(from, to, [from |-> line.from, to |-> end])
      BY <3>5, <3>6 DEF Inside
    <3> QED BY <3>1, <3>7, <3>8
  <2>2. CASE LongLine
    <3>1. PICK end : line' = [line EXCEPT !.to = end]
      BY <2>2 DEF LongLine
    <3>2. phase = "lines" /\ phase' = "windows" /\ start' = line.from
      BY <2>2 DEF LongLine
    <3> QED BY <1>5, <3>2 DEF Frontier
  <2>3. CASE Window
    <3>1. PICK cut \in start..line.to, next \in start..line.to :
            /\ IsCut(start + MaxChars, cut) /\ IsNext(cut, next)
            /\ units' = units \cup {[from |-> start, to |-> cut]}
            /\ start' = next
      BY <2>3 DEF Window
    <3>2. phase = "windows" /\ phase' = "windows"
      BY <2>3 DEF Window
    <3>3. /\ start \in Nat /\ line.to \in Nat /\ MaxChars \in Nat /\ MaxChars > 0
          /\ cut \in Nat /\ next \in Nat
      BY <1>1, <3>1, <3>2, WindowAssumption DEF TypeOK, LineKept, Interval
    <3>4. start < cut
      <4> DEFINE end == start + MaxChars
      <4>1. end \in Nat /\ start < end
        BY <3>3
      <4> HIDE DEF end
      <4>2. IsCut(end, cut)
        BY <3>1 DEF end
      <4> QED BY <3>3, <4>1, <4>2, CutInside
    <3>5. start <= from /\ from < next
      BY <1>3, <1>5, <3>1, <3>2, <3>3 DEF Frontier
    <3>6. to <= cut
      BY <1>3, <3>1, <3>3, <3>4, <3>5, PieceInWindow
    <3>7. Inside(from, to, [from |-> start, to |-> cut])
      BY <3>5, <3>6 DEF Inside
    <3> QED BY <3>1, <3>7
  <2>4. CASE LastWindow
    <3>1. /\ phase = "windows"
          /\ units' = units \cup {[from |-> start, to |-> line.to]}
          /\ AfterLine(line.to)
      BY <2>4 DEF LastWindow
    <3>2. /\ start \in Nat /\ line \in Interval /\ line.to \in Nat /\ line.from \in Nat
          /\ line.from <= start /\ start < line.to
          /\ IsLineEnd(line.from, line.to)
      BY <1>1, <3>1 DEF TypeOK, LineKept, Interval
    <3>3. line' = [from |-> line.to + 1, to |-> line.to]
      BY <3>1, <3>2 DEF AfterLine, Interval
    <3>4. phase' = IF line.to = Len(text) THEN "done" ELSE "lines"
      BY <3>1 DEF AfterLine
    <3>5. start <= from /\ from <= line.to
      BY <1>1, <1>2, <1>3, <1>5, <3>1, <3>2, <3>3, <3>4 DEF Frontier
    <3>6. to <= line.to
      BY <1>1, <1>3, <3>2, <3>5, PieceInLine
    <3>7. Inside(from, to, [from |-> start, to |-> line.to])
      BY <3>5, <3>6 DEF Inside
    <3> QED BY <3>1, <3>7
  <2>5. CASE Done \/ UNCHANGED vars
    BY <1>2, <1>5, <2>5 DEF Done, vars, Frontier
  <2> QED BY <2>1, <2>2, <2>3, <2>4, <2>5 DEF Next
<1> QED BY <1>4, <1>5

\* A name that is cut by the end of a window stands whole in another: every
\* piece of a line that starts a word and is at most the overlap long
\* (windowLine's word-start rule and cutAt's bound on going back).
THEOREM EdgesSeenWhole == Spec => []NamesSeenWhole
<1>1. Init => WholeSoFar
  <2> SUFFICES ASSUME Init PROVE WholeSoFar
    OBVIOUS
  <2>1. Frontier = 0
    BY DEF Init, Frontier
  <2> QED BY <2>1 DEF WholeSoFar
<1>2. IInv /\ WholeSoFar => NamesSeenWhole
  <2> SUFFICES ASSUME IInv, WholeSoFar, phase = "done",
                      NEW from \in 0..(Len(text) - 1), NEW to \in 1..Len(text),
                      Piece(from, to)
               PROVE  \E u \in units : Inside(from, to, u)
    BY DEF NamesSeenWhole, Piece
  <2>1. Frontier = Len(text) /\ Len(text) \in Nat
    BY TextIsSequence DEF Frontier, IInv
  <2> QED BY <2>1 DEF WholeSoFar
<1> QED BY <1>1, <1>2, NextWhole, Invariance, PTL DEF Spec

-----------------------------------------------------------------------------
(* Least and greatest scores. *)

\* A set of numbers has a least one.
LEMMA LeastExists ==
  ASSUME NEW T, T \subseteq Nat, T # {}
  PROVE  \E x \in T : \A y \in T : x <= y
<1>1. PICK x \in T : \A y \in T : ~ (<<y, x>> \in OpToRel(<, Nat))
  BY NatLessThanWellFounded, WFMin
<1>2. ASSUME NEW y \in T PROVE x <= y
  <2>1. ~(y < x)
    BY <1>1 DEF OpToRel
  <2> QED BY <2>1
<1> QED BY <1>2

\* So Least is the least one.
LEMMA LeastFacts ==
  ASSUME NEW T, T \subseteq Nat, T # {}
  PROVE  Least(T) \in T /\ \A t \in T : Least(T) <= t
BY LeastExists DEF Least

\* Scores end at the top, so a set of them has a greatest one.
LEMMA MostFacts ==
  ASSUME NEW T, T \subseteq Score, T # {}
  PROVE  Most(T) \in T /\ \A t \in T : Most(T) >= t
<1>1. PICK top \in Score : \A s \in Score : s <= top
  BY PlaceAssumption
<1>2. Score \subseteq Nat /\ T \subseteq Nat /\ top \in Nat
  BY <1>1, PlaceAssumption
<1> DEFINE below == {top - t : t \in T}
<1>3. below \subseteq Nat /\ below # {}
  <2>1. \A t \in T : t \in Nat /\ t <= top
    BY <1>1, <1>2
  <2>2. \A t \in T : top - t \in Nat
    BY <1>2, <2>1
  <2> QED BY <2>2
<1>4. PICK b \in below : \A c \in below : b <= c
  <2> HIDE DEF below
  <2> QED BY <1>3, LeastExists
<1>5. PICK m \in T : b = top - m
  BY <1>4
<1>6. \A t \in T : m >= t
  BY <1>1, <1>2, <1>4, <1>5
<1> QED BY <1>6 DEF Most

\* The greatest of a set of scores is known when it is in the set.
LEMMA MostIs ==
  ASSUME NEW T, T \subseteq Score, NEW m \in T, \A t \in T : m >= t
  PROVE  Most(T) = m
<1>1. Most(T) \in T /\ Most(T) >= m
  BY MostFacts
<1>2. m >= Most(T)
  BY <1>1
<1>3. m \in Nat /\ Most(T) \in Nat
  BY <1>1, PlaceAssumption
<1> QED BY <1>1, <1>2, <1>3

-----------------------------------------------------------------------------
(* What the stages have found. *)

Found(t, p, score) == [type |-> t, from |-> p.from, to |-> p.to, score |-> score]

\* What the span model's answers come to.
NamesFound ==
  UNION {{Found(t, p, Most(Opinions(t, p))) :
            p \in {q \in Places : Opinions(t, q) # {} /\ Most(Opinions(t, q)) >= NERMin}} :
         t \in Served}

DeniedFound == UNION {{Found(t, p, Most(Score)) : p \in Denied(t)} : t \in Served}

\* What Presidio's answer comes to.
PatternsFound ==
  UNION {{Found(t, p, Most(Opinions(t, p))) :
            p \in {q \in Places : /\ Opinions(t, q) # {}
                                  /\ Most(Opinions(t, q)) >= MinScoreThreshold}} :
         t \in PatternEntities}

\* A span of a unit as it was reported.
Report(s) ==
  [unit |-> s.glance.unit, label |-> s.glance.label, score |-> s.score,
   from |-> s.glance.place.from - s.glance.unit.from,
   to |-> s.glance.place.to - s.glance.unit.from]

Reported(s) == s.glance.label \in Asked /\ s.score >= NERMin

\* What was spotted was spotted in a unit, what was heard is what was asked of
\* it, and what was sighted has a score.
AnswersTyped ==
  /\ config \in Config
  /\ answered \subseteq units
  /\ \A s \in spotted :
       /\ s.glance.unit \in units /\ s.glance.place \in Places
       /\ s.glance.label \in DOMAIN config.labels
       /\ s.score \in Score
  /\ heard = {Report(s) : s \in {x \in spotted : Reported(x)}}
  /\ \A s \in sighted : s.score \in Score

\* What FindingsExact says comes out.
Findings ==
  UNION {
    {Found(t, p, Most(Opinions(t, p))) :
       p \in {q \in Places : /\ Wanted(t, q) /\ Opinions(t, q) # {}
                            /\ Most(Opinions(t, q)) >= Threshold(t)}}
    \cup {Found(t, p, Most(Score)) : p \in {q \in Denied(t) : Wanted(t, q) /\ t \in Served}} :
    t \in config.entities}

\* FindingsExact, in these words.
ExactlyFound ==
  stage = "done" /\ ~emptied =>
    /\ Asked # {} => answered = units
    /\ \A t \in config.entities, p \in Places : ~Empty /\ t \notin Served => Opinions(t, p) # {}
    /\ found = Findings

\* What each stage starts with.
StageInv ==
  /\ stage \in {"names", "deny", "patterns", "filter", "done", "failed"}
  /\ stage = "names" => found = {} /\ sighted = {}
  /\ stage \in {"deny", "patterns", "filter"} /\ Asked # {} => answered = units
  /\ stage = "deny" => found = NamesFound /\ sighted = {}
  /\ stage = "patterns" => found = NamesFound \cup DeniedFound /\ sighted = {}
  /\ stage = "filter" /\ ~emptied =>
       /\ found = NamesFound \cup DeniedFound \cup PatternsFound
       /\ \A t \in PatternEntities, p \in Places : Opinions(t, p) # {}
  /\ ExactlyFound

DetectInv == IInv /\ WholeSoFar /\ AnswersTyped /\ StageInv

-----------------------------------------------------------------------------
(* Thresholds. *)

\* A threshold is a score, and no service is asked for less than it needs.
LEMMA ThresholdFacts ==
  ASSUME config \in Config, NEW t \in config.entities
  PROVE  /\ Threshold(t) \in Score /\ Threshold(t) \in Nat
         /\ NERMin \in Nat /\ MinScoreThreshold \in Nat
         /\ t \in Served => Threshold(t) >= NERMin
         /\ t \notin Served => Threshold(t) >= MinScoreThreshold
<1>1. /\ config.own \in [DOMAIN config.own -> Score]
      /\ config.score \in Score /\ config.nerScore \in Score
      /\ Score \subseteq Nat
  BY ConfigAssumption, PlaceAssumption
<1>2. \A u : Threshold(u) \in Score
  BY <1>1 DEF Threshold
<1> DEFINE asked == {config.nerScore} \cup {Threshold(u) : u \in Served}
           all == {config.score} \cup {config.own[u] : u \in DOMAIN config.own}
<1>3. asked \subseteq Nat /\ asked # {} /\ all \subseteq Nat /\ all # {}
  BY <1>1, <1>2
<1>4. NERMin = Least(asked) /\ MinScoreThreshold = Least(all)
  BY DEF NERMin, MinScoreThreshold
<1>5. t \in Served => Threshold(t) \in asked
  OBVIOUS
<1>6. t \notin Served => Threshold(t) \in all
  BY DEF Threshold
<1> HIDE DEF asked, all
<1>7. /\ NERMin \in asked /\ \A s \in asked : NERMin <= s
      /\ MinScoreThreshold \in all /\ \A s \in all : MinScoreThreshold <= s
  BY <1>3, <1>4, LeastFacts
<1> QED BY <1>1, <1>2, <1>3, <1>5, <1>6, <1>7

\* The types that are served are enabled, by every label they have.
LEMMA ServedFacts ==
  /\ Served \subseteq config.entities
  /\ \A l \in DOMAIN config.labels : config.labels[l] \in Served => l \in Asked
BY DEF Served, Asked

\* Opinions are scores.
LEMMA OpinionsAreScores ==
  ASSUME AnswersTyped, NEW t, NEW p
  PROVE  Opinions(t, p) \subseteq Score
BY DEF AnswersTyped, Opinions

\* A place is its two ends.
LEMMA PlacesAreIntervals ==
  /\ Places \subseteq Interval
  /\ \A p \in Interval : p = [from |-> p.from, to |-> p.to] /\ p.from \in Nat /\ p.to \in Nat
<1>1. Place \subseteq Interval
  BY PlaceAssumption
<1>2. Places \subseteq Place
  BY DEF Places
<1> QED BY <1>1, <1>2 DEF Interval

-----------------------------------------------------------------------------
(* The span model's answers are merged. *)

\* What is merged: the opinions of a served type that were asked for.
LEMMA ReportsFacts ==
  ASSUME TypeOK, AnswersTyped, NEW d
  PROVE  d \in {InText(h) : h \in heard} <=>
           \E t \in Served, p \in Places : \E x \in Opinions(t, p) :
             x >= NERMin /\ d = Found(t, p, x)
<1>1. ASSUME NEW s \in spotted
      PROVE  InText(Report(s)) = Found(config.labels[s.glance.label], s.glance.place, s.score)
  <2>1. s.glance.unit \in Interval /\ s.glance.place \in Interval
    BY PlacesAreIntervals DEF AnswersTyped, TypeOK
  <2>2. /\ s.glance.unit.from \in Nat /\ s.glance.place.from \in Nat /\ s.glance.place.to \in Nat
    BY <2>1, PlacesAreIntervals
  <2>3. /\ s.glance.unit.from + (s.glance.place.from - s.glance.unit.from) = s.glance.place.from
        /\ s.glance.unit.from + (s.glance.place.to - s.glance.unit.from) = s.glance.place.to
    BY <2>2
  <2> QED BY <2>3 DEF InText, Report, Found
<1>2. ASSUME d \in {InText(h) : h \in heard}
      PROVE  \E t \in Served, p \in Places : \E x \in Opinions(t, p) :
               x >= NERMin /\ d = Found(t, p, x)
  <2>1. PICK s \in spotted : Reported(s) /\ d = InText(Report(s))
    BY <1>2 DEF AnswersTyped
  <2> DEFINE t == config.labels[s.glance.label]
             p == s.glance.place
  <2>2. t \in Served /\ p \in Places
    BY <2>1 DEF Reported, Served, AnswersTyped
  <2>3. s.score \in Opinions(t, p)
    BY <2>2 DEF Opinions
  <2> QED BY <1>1, <2>1, <2>2, <2>3 DEF Reported
<1>3. ASSUME NEW t \in Served, NEW p \in Places, NEW x \in Opinions(t, p),
             x >= NERMin, d = Found(t, p, x)
      PROVE  d \in {InText(h) : h \in heard}
  <2>1. PICK s \in spotted :
          s.glance.place = p /\ config.labels[s.glance.label] = t /\ s.score = x
    BY <1>3 DEF Opinions
  <2>2. s.glance.label \in Asked
    BY <2>1, ServedFacts DEF AnswersTyped
  <2>3. Report(s) \in heard
    BY <1>3, <2>1, <2>2 DEF AnswersTyped, Reported
  <2> QED BY <1>1, <1>3, <2>1, <2>3
<1> QED BY <1>2, <1>3

\* detectNames keeps, of each place, the best score the model gave it.
LEMMA MergedFacts ==
  ASSUME TypeOK, AnswersTyped
  PROVE  LET all == {InText(h) : h \in heard}
             same(d) == {e \in all : e.type = d.type /\ e.from = d.from /\ e.to = d.to}
         IN  UNION {Best(same(d)) : d \in all} = NamesFound
<1> DEFINE all == {InText(h) : h \in heard}
           same(d) == {e \in all : e.type = d.type /\ e.from = d.from /\ e.to = d.to}
<1>0. Score \subseteq Nat
  BY PlaceAssumption
<1>1. ASSUME NEW t \in Served, NEW p \in Places, NEW x \in Opinions(t, p), x >= NERMin
      PROVE  /\ Found(t, p, x) \in all
             /\ Best(same(Found(t, p, x))) = {Found(t, p, Most(Opinions(t, p)))}
             /\ Most(Opinions(t, p)) >= NERMin
  <2> DEFINE most == Most(Opinions(t, p))
             group == same(Found(t, p, x))
  <2>1. Opinions(t, p) \subseteq Score /\ x \in Nat
    BY <1>0, OpinionsAreScores
  <2>2. most \in Opinions(t, p) /\ (\A y \in Opinions(t, p) : most >= y)
    BY <2>1, MostFacts
  <2>3. most \in Nat /\ NERMin \in Nat /\ most >= NERMin
    <3>1. config \in Config /\ t \in config.entities
      BY ServedFacts DEF AnswersTyped
    <3>2. NERMin \in Nat
      BY <3>1, ThresholdFacts
    <3>3. most \in Nat /\ most >= x
      BY <1>0, <2>1, <2>2
    <3> HIDE DEF most
    <3> QED BY <1>1, <2>1, <3>2, <3>3
  <2>4. Found(t, p, x) \in all /\ Found(t, p, most) \in all
    BY <1>1, <2>2, <2>3, ReportsFacts
  <2>5. ASSUME NEW e \in group
        PROVE  \E y \in Opinions(t, p) : e = Found(t, p, y)
    <3>1. e \in all /\ e.type = t /\ e.from = p.from /\ e.to = p.to
      BY <2>5 DEF Found
    <3>2. PICK u \in Served, q \in Places : \E y \in Opinions(u, q) : e = Found(u, q, y)
      BY <3>1, ReportsFacts
    <3>3. PICK y \in Opinions(u, q) : e = Found(u, q, y)
      BY <3>2
    <3>4. u = t /\ q.from = p.from /\ q.to = p.to
      BY <3>1, <3>3 DEF Found
    <3>5. q = p
      BY <3>4, PlacesAreIntervals
    <3> QED BY <3>3, <3>4, <3>5
  <2>6. Found(t, p, most) \in group
    BY <2>4 DEF Found
  <2> DEFINE best(d) == \A e \in group : e.score <= d.score
  <2>7. best(Found(t, p, most))
    <3>1. ASSUME NEW e \in group PROVE e.score <= most
      <4>1. PICK y \in Opinions(t, p) : e = Found(t, p, y)
        BY <2>5
      <4>2. most >= y /\ y \in Nat
        BY <1>0, <2>1, <2>2
      <4> QED BY <2>3, <4>1, <4>2 DEF Found
    <3>2. Found(t, p, most).score = most
      BY DEF Found
    <3> QED BY <3>1, <3>2
  <2>8. ASSUME NEW e \in group, best(e) PROVE e = Found(t, p, most)
    <3>1. PICK y \in Opinions(t, p) : e = Found(t, p, y)
      BY <2>5
    <3>2. most <= e.score
      BY <2>6, <2>8 DEF Found
    <3>3. most >= y /\ y \in Nat /\ e.score = y
      BY <1>0, <2>1, <2>2, <3>1 DEF Found
    <3>4. y = most
      BY <2>3, <3>2, <3>3
    <3> QED BY <3>1, <3>4
  <2>9. (CHOOSE d \in group : best(d)) = Found(t, p, most)
    BY <2>6, <2>7, <2>8
  <2>10. Best(group) = {Found(t, p, most)}
    BY <2>9 DEF Best
  <2> QED BY <2>3, <2>4, <2>10
<1>2. ASSUME NEW d \in all
      PROVE  Best(same(d)) \subseteq NamesFound
  <2>1. PICK t \in Served, p \in Places : \E x \in Opinions(t, p) :
          x >= NERMin /\ d = Found(t, p, x)
    BY ReportsFacts
  <2>2. PICK x \in Opinions(t, p) : x >= NERMin /\ d = Found(t, p, x)
    BY <2>1
  <2>3. Best(same(d)) = {Found(t, p, Most(Opinions(t, p)))}
        /\ Most(Opinions(t, p)) >= NERMin
    BY <1>1, <2>2
  <2> QED BY <2>3 DEF NamesFound
<1>3. ASSUME NEW e \in NamesFound
      PROVE  \E d \in all : e \in Best(same(d))
  <2>1. PICK t \in Served : \E p \in Places :
          /\ Opinions(t, p) # {} /\ Most(Opinions(t, p)) >= NERMin
          /\ e = Found(t, p, Most(Opinions(t, p)))
    BY <1>3 DEF NamesFound
  <2>2. PICK p \in Places :
          /\ Opinions(t, p) # {} /\ Most(Opinions(t, p)) >= NERMin
          /\ e = Found(t, p, Most(Opinions(t, p)))
    BY <2>1
  <2>3. Most(Opinions(t, p)) \in Opinions(t, p)
    BY <2>2, OpinionsAreScores, MostFacts
  <2> QED BY <1>1, <2>2, <2>3
<1> HIDE DEF all, same
<1>4. UNION {Best(same(d)) : d \in all} = NamesFound
  BY <1>2, <1>3
<1> QED BY <1>4 DEF all, same

-----------------------------------------------------------------------------
(* The handler's filters leave what FindingsExact says. *)

\* A denied place is its two ends.
LEMMA DeniedFacts ==
  ASSUME NEW t, NEW p \in Denied(t)
  PROVE  p = [from |-> p.from, to |-> p.to]
<1>1. \E kept : Denied(t) = {[from |-> h.from, to |-> h.to] : h \in kept}
  BY Zenon DEF Denied
<1>2. PICK h : p = [from |-> h.from, to |-> h.to]
  BY <1>1
<1> QED BY <1>2

\* A detection passes when its place is wanted and its score is high enough.
LEMMA PassesFacts ==
  ASSUME NEW t \in config.entities, NEW p, p = [from |-> p.from, to |-> p.to], NEW x
  PROVE  Passes(Found(t, p, x)) <=> Wanted(t, p) /\ x >= Threshold(t)
BY DEF Passes, Found, Wanted

\* Each filter takes away what it should and nothing else.
LEMMA FilteredFacts ==
  ASSUME TypeOK, AnswersTyped
  PROVE  {d \in NamesFound \cup DeniedFound \cup PatternsFound : Passes(d)} = Findings
<1> DEFINE all == NamesFound \cup DeniedFound \cup PatternsFound
<1>1. \A p \in Places : p = [from |-> p.from, to |-> p.to]
  BY PlacesAreIntervals
<1>2. ASSUME NEW t \in config.entities, NEW p \in Places, Opinions(t, p) # {}
      PROVE  Most(Opinions(t, p)) \in Nat
  <2>1. Opinions(t, p) \subseteq Score
    BY OpinionsAreScores
  <2>2. Most(Opinions(t, p)) \in Opinions(t, p)
    BY <1>2, <2>1, MostFacts
  <2> QED BY <2>1, <2>2, PlaceAssumption
<1>3. ASSUME NEW d \in NamesFound, Passes(d) PROVE d \in Findings
  <2>1. PICK t \in Served, p \in Places :
          Opinions(t, p) # {} /\ d = Found(t, p, Most(Opinions(t, p)))
    BY <1>3 DEF NamesFound
  <2>2. t \in config.entities
    BY ServedFacts
  <2>3. Wanted(t, p) /\ Most(Opinions(t, p)) >= Threshold(t)
    BY <1>1, <1>3, <2>1, <2>2, PassesFacts
  <2> QED BY <2>1, <2>2, <2>3 DEF Findings
<1>4. ASSUME NEW d \in DeniedFound, Passes(d) PROVE d \in Findings
  <2>1. PICK t \in Served : \E p \in Denied(t) : d = Found(t, p, Most(Score))
    BY DEF DeniedFound
  <2>2. PICK p \in Denied(t) : d = Found(t, p, Most(Score))
    BY <2>1
  <2>3. t \in config.entities /\ Wanted(t, p)
    BY <1>4, <2>2, ServedFacts, DeniedFacts, PassesFacts
  <2> QED BY <2>2, <2>3 DEF Findings
<1>5. ASSUME NEW d \in PatternsFound, Passes(d) PROVE d \in Findings
  <2>1. PICK t \in PatternEntities, p \in Places :
          Opinions(t, p) # {} /\ d = Found(t, p, Most(Opinions(t, p)))
    BY <1>5 DEF PatternsFound
  <2>2. t \in config.entities
    BY DEF PatternEntities
  <2>3. Wanted(t, p) /\ Most(Opinions(t, p)) >= Threshold(t)
    BY <1>1, <1>5, <2>1, <2>2, PassesFacts
  <2> QED BY <2>1, <2>2, <2>3 DEF Findings
<1>6. ASSUME NEW t \in config.entities, NEW p \in Places, Opinions(t, p) # {},
             Wanted(t, p), Most(Opinions(t, p)) >= Threshold(t)
      PROVE  /\ Found(t, p, Most(Opinions(t, p))) \in NamesFound \cup PatternsFound
             /\ Passes(Found(t, p, Most(Opinions(t, p))))
  <2> DEFINE most == Most(Opinions(t, p))
  <2>1. most \in Nat
    BY <1>2, <1>6
  <2>2. /\ Threshold(t) \in Nat /\ NERMin \in Nat /\ MinScoreThreshold \in Nat
        /\ t \in Served => Threshold(t) >= NERMin
        /\ t \notin Served => Threshold(t) >= MinScoreThreshold
    BY ThresholdFacts DEF AnswersTyped
  <2>3. (t \in Served => most >= NERMin) /\ (t \notin Served => most >= MinScoreThreshold)
    <3> HIDE DEF most
    <3>1. most >= Threshold(t)
      BY <1>6 DEF most
    <3> QED BY <2>1, <2>2, <3>1
  <2>4. t \in Served => Found(t, p, most) \in NamesFound
    BY <1>6, <2>3 DEF NamesFound
  <2>5. t \notin Served => Found(t, p, most) \in PatternsFound
    BY <1>6, <2>3 DEF PatternsFound, PatternEntities
  <2>6. Passes(Found(t, p, most))
    BY <1>1, <1>6, PassesFacts
  <2> QED BY <2>4, <2>5, <2>6
<1>7. ASSUME NEW t \in config.entities, NEW p \in Denied(t), Wanted(t, p), t \in Served
      PROVE  Found(t, p, Most(Score)) \in DeniedFound /\ Passes(Found(t, p, Most(Score)))
  <2>1. Threshold(t) \in Score
    BY ThresholdFacts DEF AnswersTyped
  <2>2. Most(Score) >= Threshold(t)
    BY <2>1, MostFacts
  <2> QED BY <1>7, <2>2, DeniedFacts, PassesFacts DEF DeniedFound
<1>8. ASSUME NEW d \in Findings PROVE d \in all /\ Passes(d)
  <2>1. PICK t \in config.entities :
          \/ \E p \in Places : /\ Wanted(t, p) /\ Opinions(t, p) # {}
                              /\ Most(Opinions(t, p)) >= Threshold(t)
                              /\ d = Found(t, p, Most(Opinions(t, p)))
          \/ \E p \in Denied(t) : Wanted(t, p) /\ t \in Served /\ d = Found(t, p, Most(Score))
    BY <1>8 DEF Findings
  <2> QED BY <1>6, <1>7, <2>1
<1> HIDE DEF all
<1>9. {d \in all : Passes(d)} = Findings
  <2>1. ASSUME NEW d \in all, Passes(d) PROVE d \in Findings
    BY <1>3, <1>4, <1>5, <2>1 DEF all
  <2> QED BY <1>8, <2>1
<1> QED BY <1>9 DEF all

\* FindingsExact is about what comes out.
LEMMA FindingsFacts == ExactlyFound <=> FindingsExact
BY DEF FindingsExact, ExactlyFound, Findings, Found

-----------------------------------------------------------------------------
(* Every step keeps the invariant. *)

\* What the services are asked for stays as it is.
LEMMA AskedSteady ==
  ASSUME UNCHANGED <<text, config>>
  PROVE  /\ Places' = Places /\ Asked' = Asked /\ Served' = Served
         /\ PatternEntities' = PatternEntities
         /\ NERMin' = NERMin /\ MinScoreThreshold' = MinScoreThreshold
         /\ \A t : Threshold(t)' = Threshold(t)
         /\ \A t : Denied(t)' = Denied(t)
         /\ Empty' = Empty
<1>1. Places' = Places /\ Asked' = Asked /\ Empty' = Empty
  BY DEF Places, Asked, Empty, IsSpace, At
<1>2. Served' = Served
  BY <1>1 DEF Served
<1>3. PatternEntities' = PatternEntities
  BY <1>2 DEF PatternEntities
<1>4. \A t : Threshold(t)' = Threshold(t)
  BY <1>2 DEF Threshold
<1>5. NERMin' = NERMin /\ MinScoreThreshold' = MinScoreThreshold
  BY <1>2, <1>4 DEF NERMin, MinScoreThreshold
<1>6. \A t : Denied(t)' = Denied(t)
  BY DEF Denied, Occurrences, WholeWord, At
<1> QED BY <1>1, <1>2, <1>3, <1>4, <1>5, <1>6

\* And so does what was found, while nobody answers.
LEMMA FoundSteady ==
  ASSUME UNCHANGED <<text, config, spotted, sighted>>
  PROVE  /\ NamesFound' = NamesFound /\ DeniedFound' = DeniedFound
         /\ PatternsFound' = PatternsFound
         /\ \A t, p : Opinions(t, p)' = Opinions(t, p)
<1>1. \A t, p : Opinions(t, p)' = Opinions(t, p)
  BY AskedSteady DEF Opinions
<1>2. NamesFound' = NamesFound
  BY <1>1, AskedSteady DEF NamesFound, Found
<1>3. DeniedFound' = DeniedFound
  BY AskedSteady DEF DeniedFound, Found
<1>4. PatternsFound' = PatternsFound
  BY <1>1, AskedSteady DEF PatternsFound, Found
<1> QED BY <1>1, <1>2, <1>3, <1>4

\* What is asked and heard of a text stays typed while it is cut.
LEMMA CutStep ==
  ASSUME DetectInv, Cut
  PROVE  DetectInv'
<1>1. stage = "names" /\ Next /\ UNCHANGED detectVars /\ [Next]_vars
  BY DEF Cut
<1>2. IInv' /\ WholeSoFar'
  BY <1>1, NextIInv, NextWhole DEF DetectInv
<1>3. text' = text /\ units \subseteq units'
  BY <1>1 DEF Next, SkipBlankLine, WholeLine, LongLine, Window, LastWindow, Done, vars
<1>4. UNCHANGED <<config, stage, answered, heard, found, spotted, sighted, emptied>>
  BY <1>1 DEF detectVars, history
<1>5. AnswersTyped'
  BY <1>3, <1>4, AskedSteady DEF DetectInv, AnswersTyped, Report, Reported
<1>6. StageInv'
  BY <1>1, <1>3, <1>4, AskedSteady DEF DetectInv, StageInv, ExactlyFound
<1> QED BY <1>2, <1>5, <1>6 DEF DetectInv

\* While the units stay as they are, so does the cutting's part.
LEMMA UnitsSteady ==
  ASSUME DetectInv, UNCHANGED vars
  PROVE  IInv' /\ WholeSoFar'
BY NextIInv, NextWhole DEF DetectInv

\* What a batch of units is answered is heard as it was asked for.
LEMMA AnswerStep ==
  ASSUME DetectInv, AnswerBatch
  PROVE  DetectInv'
<1>1. /\ stage = "names" /\ answered' = answered \cup Batch
      /\ UNCHANGED <<vars, config, stage, found, sighted, emptied>>
  BY DEF AnswerBatch
<1>2. IInv' /\ WholeSoFar'
  BY <1>1, UnitsSteady
<1>3. UNCHANGED <<text, units, config>>
  BY <1>1 DEF vars
<1>4. Batch \subseteq units
  BY DEF Batch
<1>5. PICK scores \in [UNION {Glances(u) : u \in Batch} -> Score] :
        /\ spotted' = spotted \cup {[glance |-> g, score |-> scores[g]] : g \in DOMAIN scores}
        /\ heard' = heard \cup
             {[unit |-> g.unit, label |-> g.label, score |-> scores[g],
               from |-> g.place.from - g.unit.from, to |-> g.place.to - g.unit.from] :
                g \in {h \in DOMAIN scores : h.label \in Asked /\ scores[h] >= NERMin}}
  BY DEF AnswerBatch
<1> DEFINE new == {[glance |-> g, score |-> scores[g]] : g \in DOMAIN scores}
<1>6. \A g \in DOMAIN scores : /\ g.unit \in units /\ g.place \in Places
                              /\ g.label \in DOMAIN config.labels /\ scores[g] \in Score
  BY <1>4 DEF Glances
<1>7. \A s \in new : /\ s.glance.unit \in units /\ s.glance.place \in Places
                    /\ s.glance.label \in DOMAIN config.labels
                    /\ s.score \in Score
  BY <1>6
<1>8. heard' = heard \cup {Report(s) : s \in {x \in new : Reported(x)}}
  <2>1. \A g \in DOMAIN scores :
          LET s == [glance |-> g, score |-> scores[g]]
          IN  /\ Report(s) = [unit |-> g.unit, label |-> g.label, score |-> scores[g],
                              from |-> g.place.from - g.unit.from,
                              to |-> g.place.to - g.unit.from]
              /\ Reported(s) <=> g.label \in Asked /\ scores[g] >= NERMin
    BY DEF Report, Reported
  <2>2. {Report(s) : s \in {x \in new : Reported(x)}} =
          {[unit |-> g.unit, label |-> g.label, score |-> scores[g],
            from |-> g.place.from - g.unit.from, to |-> g.place.to - g.unit.from] :
             g \in {h \in DOMAIN scores : h.label \in Asked /\ scores[h] >= NERMin}}
    BY <2>1
  <2> QED BY <1>5, <2>2
<1>9. spotted' = spotted \cup new
  BY <1>5
<1> HIDE DEF new
<1>10. heard' = {Report(s) : s \in {x \in spotted' : Reported(x)}}
  BY <1>8, <1>9 DEF DetectInv, AnswersTyped
<1>11. \A s : Report(s)' = Report(s) /\ (Reported(s)' <=> Reported(s))
  BY <1>3, AskedSteady DEF Report, Reported
<1>12. AnswersTyped'
  <2>1. config' \in Config /\ answered' \subseteq units'
    BY <1>1, <1>3, <1>4 DEF DetectInv, AnswersTyped
  <2>2. Places' = Places
    BY <1>3, AskedSteady
  <2>3. (\A s \in spotted' :
          /\ s.glance.unit \in units /\ s.glance.place \in Places
          /\ s.glance.label \in DOMAIN config.labels
          /\ s.score \in Score)
    BY <1>7, <1>9 DEF DetectInv, AnswersTyped
  <2>4. heard' = {Report(s) : s \in {x \in spotted : Reported(x)}}'
    BY <1>10, <1>3, AskedSteady DEF Report, Reported
  <2>5. \A s \in sighted' : s.score \in Score
    BY <1>1 DEF DetectInv, AnswersTyped
  <2> QED BY <1>3, <2>1, <2>2, <2>3, <2>4, <2>5 DEF AnswersTyped
<1>13. StageInv'
  BY <1>1 DEF DetectInv, StageInv, ExactlyFound
<1> QED BY <1>2, <1>12, <1>13 DEF DetectInv

\* While nobody answers, the answers stay typed.
LEMMA AnswersSteady ==
  ASSUME AnswersTyped, UNCHANGED <<text, units, config, answered, heard, spotted, sighted>>
  PROVE  AnswersTyped'
BY AskedSteady DEF AnswersTyped, Report, Reported

\* When no batch is left, every unit was answered.
LEMMA NothingLeft ==
  ASSUME TypeOK, answered \subseteq units, Batch = {}
  PROVE  answered = units
<1> DEFINE left == units \ answered
           before(u) == {v \in left : v.from < u.from}
           froms == {u.from : u \in left}
<1> SUFFICES ASSUME left # {} PROVE FALSE
  OBVIOUS
<1>1. \A u \in left : u.from \in Nat
  BY DEF TypeOK, Interval
<1>2. froms \subseteq Nat /\ froms # {}
  BY <1>1
<1>3. PICK m \in froms : \A f \in froms : m <= f
  <2> HIDE DEF froms
  <2> QED BY <1>2, LeastExists
<1>4. PICK u \in left : u.from = m
  BY <1>3
<1>5. before(u) = {}
  BY <1>1, <1>3, <1>4
<1>6. Cardinality(before(u)) < BatchSize
  <2>1. Cardinality(before(u)) = 0
    BY <1>5, FS_EmptySet, Zenon
  <2>2. 0 < BatchSize
    <3>1. BatchSize \in Nat \ {0}
      BY PlaceAssumption, Zenon
    <3> QED BY <3>1
  <2> QED BY <2>1, <2>2, Zenon
<1> QED BY <1>6 DEF Batch

\* A failure ends detection, so nothing comes out.
LEMMA FailStep ==
  ASSUME DetectInv, BatchFails \/ AnalyzeFails
  PROVE  DetectInv'
<1>1. /\ stage' = "failed"
      /\ UNCHANGED <<vars, config, answered, heard, found, history>>
  BY DEF BatchFails, AnalyzeFails
<1>2. UNCHANGED <<text, units, config, answered, heard, spotted, sighted>>
  BY <1>1 DEF vars, history
<1>3. AnswersTyped'
  BY <1>2, AnswersSteady DEF DetectInv
<1>4. StageInv'
  BY <1>1 DEF StageInv, ExactlyFound
<1> QED BY <1>1, <1>3, <1>4, UnitsSteady DEF DetectInv

\* What is merged is what the span model's answers come to.
LEMMA MergeStep ==
  ASSUME DetectInv, MergeNames
  PROVE  DetectInv'
<1>1. /\ stage = "names" /\ stage' = "deny" /\ Batch = {}
      /\ UNCHANGED <<vars, config, answered, heard, history>>
  BY DEF MergeNames
<1>2. UNCHANGED <<text, units, config, answered, heard, spotted, sighted, emptied>>
  BY <1>1 DEF vars, history
<1>3. TypeOK /\ AnswersTyped
  BY DEF DetectInv, IInv
<1>4. found' = NamesFound
  <2>1. found' = LET all == {InText(h) : h \in heard}
                     same(d) == {e \in all : e.type = d.type /\ e.from = d.from /\ e.to = d.to}
                 IN  UNION {Best(same(d)) : d \in all}
    BY DEF MergeNames
  <2> QED BY <1>3, <2>1, MergedFacts, Zenon
<1>5. answered = units
  BY <1>1, <1>3, NothingLeft DEF AnswersTyped
<1>6. sighted = {}
  BY <1>1 DEF DetectInv, StageInv
<1>7. StageInv'
  BY <1>1, <1>2, <1>4, <1>5, <1>6, FoundSteady DEF StageInv, ExactlyFound
<1>8. AnswersTyped'
  BY <1>2, <1>3, AnswersSteady
<1> QED BY <1>1, <1>7, <1>8, UnitsSteady DEF DetectInv

\* The deny-list adds its places; Presidio is asked if a type is left to it.
LEMMA DenyStep ==
  ASSUME DetectInv, FindDenied
  PROVE  DetectInv'
<1>1. /\ stage = "deny"
      /\ stage' = IF PatternEntities = {} THEN "filter" ELSE "patterns"
      /\ UNCHANGED <<vars, config, answered, heard, history>>
  BY DEF FindDenied
<1>2. UNCHANGED <<text, units, config, answered, heard, spotted, sighted, emptied>>
  BY <1>1 DEF vars, history
<1>3. found = NamesFound /\ sighted = {} /\ (Asked # {} => answered = units)
  BY <1>1 DEF DetectInv, StageInv
<1>4. found' = NamesFound \cup DeniedFound
  BY <1>3 DEF FindDenied, DeniedFound, Found
<1>5. PatternEntities = {} => PatternsFound = {}
  BY DEF PatternsFound
<1>6. /\ NamesFound' = NamesFound /\ DeniedFound' = DeniedFound /\ PatternsFound' = PatternsFound
      /\ PatternEntities' = PatternEntities /\ Asked' = Asked
  BY <1>2, AskedSteady, FoundSteady
<1>7. StageInv'
  <2>1. CASE PatternEntities = {}
    <3>1. stage' = "filter" /\ found' = NamesFound' \cup DeniedFound' \cup PatternsFound'
      BY <1>1, <1>4, <1>5, <1>6, <2>1
    <3>2. \A t \in PatternEntities', p \in Places' : Opinions(t, p)' # {}
      BY <1>6, <2>1
    <3> QED BY <1>2, <1>3, <1>6, <3>1, <3>2 DEF StageInv, ExactlyFound
  <2>2. CASE PatternEntities # {}
    <3>1. stage' = "patterns" /\ found' = NamesFound' \cup DeniedFound' /\ sighted' = {}
      BY <1>1, <1>2, <1>3, <1>4, <1>6, <2>2
    <3> QED BY <1>2, <1>3, <1>6, <3>1 DEF StageInv, ExactlyFound
  <2> QED BY <2>1, <2>2
<1>8. AnswersTyped'
  BY <1>2, AnswersSteady DEF DetectInv
<1> QED BY <1>1, <1>7, <1>8, UnitsSteady DEF DetectInv

\* Presidio's answer is what it was asked for of its opinions.
LEMMA AnalyzeStep ==
  ASSUME DetectInv, Analyze
  PROVE  DetectInv'
<1>1. /\ stage = "patterns" /\ stage' = "filter"
      /\ UNCHANGED <<vars, config, answered, heard, spotted, emptied>>
  BY DEF Analyze
<1>2. UNCHANGED <<text, units, config, answered, heard, spotted, emptied>>
  BY <1>1 DEF vars
<1>3. /\ found = NamesFound \cup DeniedFound /\ (Asked # {} => answered = units)
  BY <1>1 DEF DetectInv, StageInv
<1>4. PICK scores \in [Places \X config.entities -> Score] :
        LET seen == {[type |-> g[2], from |-> g[1].from, to |-> g[1].to, score |-> scores[g]] :
                       g \in DOMAIN scores}
        IN  /\ sighted' = seen
            /\ found' = found \cup {d \in seen : /\ d.type \in PatternEntities
                                                 /\ d.score >= MinScoreThreshold}
  BY DEF Analyze
<1> DEFINE seen == {[type |-> g[2], from |-> g[1].from, to |-> g[1].to, score |-> scores[g]] :
                      g \in DOMAIN scores}
<1>5. /\ sighted' = seen
      /\ found' = found \cup {d \in seen : d.type \in PatternEntities /\ d.score >= MinScoreThreshold}
  BY <1>4
<1>6. \A d : d \in seen <=> \E t \in config.entities, p \in Places :
                            d = Found(t, p, scores[<<p, t>>])
  <2>1. DOMAIN scores = Places \X config.entities
    OBVIOUS
  <2>2. ASSUME NEW d \in seen
        PROVE  \E t \in config.entities, p \in Places : d = Found(t, p, scores[<<p, t>>])
    <3>1. PICK g \in Places \X config.entities :
            d = [type |-> g[2], from |-> g[1].from, to |-> g[1].to, score |-> scores[g]]
      BY <2>1
    <3>2. g = <<g[1], g[2]>> /\ g[1] \in Places /\ g[2] \in config.entities
      OBVIOUS
    <3> QED BY <3>1, <3>2 DEF Found
  <2>3. ASSUME NEW t \in config.entities, NEW p \in Places
        PROVE  Found(t, p, scores[<<p, t>>]) \in seen
    <3>1. <<p, t>> \in DOMAIN scores
      BY <2>1
    <3> QED BY <3>1 DEF Found
  <2> HIDE DEF seen
  <2> QED BY <2>2, <2>3
<1>7. \A t \in config.entities, p \in Places : scores[<<p, t>>] \in Score
  OBVIOUS
<1>8. \A t \in PatternEntities : t \in config.entities /\ t \notin Served
  BY DEF PatternEntities
<1> HIDE DEF seen
<1>9. /\ Places' = Places /\ Served' = Served /\ PatternEntities' = PatternEntities
      /\ MinScoreThreshold' = MinScoreThreshold /\ NERMin' = NERMin /\ Asked' = Asked
      /\ \A t : Denied(t)' = Denied(t)
  BY <1>2, AskedSteady
<1>10. \A t \in PatternEntities, p \in Places : Opinions(t, p)' = {scores[<<p, t>>]}
  <2> SUFFICES ASSUME NEW t \in PatternEntities, NEW p \in Places
               PROVE  Opinions(t, p)' = {scores[<<p, t>>]}
    OBVIOUS
  <2>1. Opinions(t, p)' = {s.score : s \in {q \in seen : q.type = t /\ q.from = p.from /\ q.to = p.to}}
    BY <1>5, <1>8, <1>9 DEF Opinions
  <2>2. ASSUME NEW s \in seen, s.type = t, s.from = p.from, s.to = p.to
        PROVE  s.score = scores[<<p, t>>]
    <3>1. PICK u \in config.entities, q \in Places : s = Found(u, q, scores[<<q, u>>])
      BY <1>6
    <3>2. u = t /\ q.from = p.from /\ q.to = p.to /\ s.score = scores[<<q, u>>]
      BY <2>2, <3>1 DEF Found
    <3>3. q = p
      BY <3>2, PlacesAreIntervals
    <3> QED BY <3>2, <3>3
  <2>3. Found(t, p, scores[<<p, t>>]) \in seen
    BY <1>6, <1>8
  <2>4. /\ Found(t, p, scores[<<p, t>>]).type = t
        /\ Found(t, p, scores[<<p, t>>]).from = p.from
        /\ Found(t, p, scores[<<p, t>>]).to = p.to
        /\ Found(t, p, scores[<<p, t>>]).score = scores[<<p, t>>]
    BY DEF Found
  <2> QED BY <2>1, <2>2, <2>3, <2>4
<1>11. \A t \in PatternEntities, p \in Places : Most({scores[<<p, t>>]}) = scores[<<p, t>>]
  <2> SUFFICES ASSUME NEW t \in PatternEntities, NEW p \in Places
               PROVE  Most({scores[<<p, t>>]}) = scores[<<p, t>>]
    OBVIOUS
  <2> DEFINE x == scores[<<p, t>>]
  <2>1. x \in Score
    BY <1>7, <1>8
  <2> HIDE DEF x
  <2>2. {x} \subseteq Score /\ {x} # {}
    BY <2>1
  <2>3. Most({x}) \in {x}
    BY <2>2, MostFacts
  <2> QED BY <2>3 DEF x
<1>12. \A d : d \in PatternsFound' <=>
               \E t \in PatternEntities, p \in Places :
                 scores[<<p, t>>] >= MinScoreThreshold /\ d = Found(t, p, scores[<<p, t>>])
  <2>1. \A d : d \in PatternsFound' <=>
                \E t \in PatternEntities, p \in Places :
                  /\ Opinions(t, p)' # {} /\ Most(Opinions(t, p)') >= MinScoreThreshold
                  /\ d = Found(t, p, Most(Opinions(t, p)'))
    BY <1>9 DEF PatternsFound, Found
  <2>2. \A t \in PatternEntities, p \in Places :
          Opinions(t, p)' # {} /\ Most(Opinions(t, p)') = scores[<<p, t>>]
    BY <1>10, <1>11
  <2>3. ASSUME NEW d
        PROVE  d \in PatternsFound' <=>
                 \E t \in PatternEntities, p \in Places :
                   scores[<<p, t>>] >= MinScoreThreshold /\ d = Found(t, p, scores[<<p, t>>])
    <3>1. ASSUME d \in PatternsFound'
          PROVE  \E t \in PatternEntities, p \in Places :
                   scores[<<p, t>>] >= MinScoreThreshold /\ d = Found(t, p, scores[<<p, t>>])
      <4>1. PICK t \in PatternEntities, p \in Places :
              /\ Most(Opinions(t, p)') >= MinScoreThreshold
              /\ d = Found(t, p, Most(Opinions(t, p)'))
        BY <2>1, <3>1, Zenon
      <4>2. Most(Opinions(t, p)') = scores[<<p, t>>]
        BY <2>2, Zenon
      <4> QED BY <4>1, <4>2, Zenon
    <3>2. ASSUME NEW t \in PatternEntities, NEW p \in Places,
                 scores[<<p, t>>] >= MinScoreThreshold, d = Found(t, p, scores[<<p, t>>])
          PROVE  d \in PatternsFound'
      <4>1. Opinions(t, p)' # {} /\ Most(Opinions(t, p)') = scores[<<p, t>>]
        BY <2>2, Zenon
      <4> QED BY <2>1, <3>2, <4>1, Zenon
    <3> QED BY <3>1, <3>2, Zenon
  <2> QED BY <2>3
<1>13. {d \in seen : d.type \in PatternEntities /\ d.score >= MinScoreThreshold} = PatternsFound'
  <2>1. ASSUME NEW d \in seen, d.type \in PatternEntities, d.score >= MinScoreThreshold
        PROVE  d \in PatternsFound'
    <3>1. PICK t \in config.entities, p \in Places : d = Found(t, p, scores[<<p, t>>])
      BY <1>6
    <3>2. d.type = t /\ d.score = scores[<<p, t>>]
      BY <3>1 DEF Found
    <3> QED BY <1>12, <2>1, <3>1, <3>2
  <2>2. ASSUME NEW d \in PatternsFound'
        PROVE  d \in seen /\ d.type \in PatternEntities /\ d.score >= MinScoreThreshold
    <3>1. PICK t \in PatternEntities, p \in Places :
            scores[<<p, t>>] >= MinScoreThreshold /\ d = Found(t, p, scores[<<p, t>>])
      BY <1>12, <2>2
    <3>2. d.type = t /\ d.score = scores[<<p, t>>]
      BY <3>1 DEF Found
    <3> QED BY <1>6, <1>8, <3>1, <3>2
  <2> QED BY <2>1, <2>2
<1>14. NamesFound' = NamesFound /\ DeniedFound' = DeniedFound
  <2>1. \A t \in Served : \A p : Opinions(t, p)' = Opinions(t, p)
    BY <1>2, <1>9 DEF Opinions
  <2>2. NamesFound' = NamesFound
    BY <1>9, <2>1 DEF NamesFound, Found
  <2>3. DeniedFound' = DeniedFound
    BY <1>9 DEF DeniedFound, Found
  <2> QED BY <2>2, <2>3
<1>15. StageInv'
  <2>1. found' = NamesFound' \cup DeniedFound' \cup PatternsFound'
    BY <1>3, <1>5, <1>13, <1>14
  <2>2. \A t \in PatternEntities', p \in Places' : Opinions(t, p)' # {}
    <3>1. ASSUME NEW t \in PatternEntities, NEW p \in Places PROVE Opinions(t, p)' # {}
      <4>1. Opinions(t, p)' = {scores[<<p, t>>]}
        BY <1>10
      <4> QED BY <4>1, Zenon
    <3>2. \A t \in PatternEntities, p \in Places : Opinions(t, p)' # {}
      BY <3>1
    <3>3. PatternEntities' = PatternEntities /\ Places' = Places
      BY <1>9
    <3> QED BY <3>2, <3>3, Zenon
  <2>3. ExactlyFound'
    BY <1>1 DEF ExactlyFound
  <2>4. Asked' # {} => answered' = units'
    BY <1>2, <1>3, <1>9
  <2>5. stage' \notin {"names", "deny", "patterns"}
    BY <1>1
  <2>6. /\ stage' \in {"names", "deny", "patterns", "filter", "done", "failed"}
        /\ stage' = "names" => found' = {} /\ sighted' = {}
        /\ stage' = "deny" => found' = NamesFound' /\ sighted' = {}
        /\ stage' = "patterns" => found' = NamesFound' \cup DeniedFound' /\ sighted' = {}
    BY <1>1, <2>5
  <2> QED BY <2>1, <2>2, <2>3, <2>4, <2>6, Zenon DEF StageInv
<1>16. AnswersTyped'
  <2>1. AnswersTyped /\ \A s \in seen : s.score \in Score
    <3>1. ASSUME NEW s \in seen PROVE s.score \in Score
      <4>1. PICK t \in config.entities, p \in Places : s = Found(t, p, scores[<<p, t>>])
        BY <1>6
      <4>2. s.score = scores[<<p, t>>]
        BY <4>1 DEF Found
      <4> QED BY <1>7, <4>2
    <3> QED BY <3>1 DEF DetectInv
  <2> QED BY <1>2, <1>5, <1>9, <2>1, AskedSteady DEF AnswersTyped, Report, Reported
<1> QED BY <1>1, <1>15, <1>16, UnitsSteady DEF DetectInv

\* An empty body is taken for an answer without detections.
LEMMA EmptyStep ==
  ASSUME DetectInv, AnalyzeEmpty
  PROVE  DetectInv'
<1>1. /\ stage = "patterns" /\ stage' = "filter" /\ emptied' = TRUE
      /\ UNCHANGED <<vars, config, answered, heard, found, spotted, sighted>>
  BY DEF AnalyzeEmpty
<1>2. UNCHANGED <<text, units, config, answered, heard, spotted, sighted>>
  BY <1>1 DEF vars
<1>3. StageInv'
  BY <1>1, <1>2, AskedSteady DEF DetectInv, StageInv, ExactlyFound
<1>4. AnswersTyped'
  BY <1>2, AnswersSteady DEF DetectInv
<1> QED BY <1>1, <1>3, <1>4, UnitsSteady DEF DetectInv

\* What passes the filters is what FindingsExact says.
LEMMA FilterStep ==
  ASSUME DetectInv, Filter
  PROVE  DetectInv'
<1>1. /\ stage = "filter" /\ stage' = "done" /\ found' = {d \in found : Passes(d)}
      /\ UNCHANGED <<vars, config, answered, heard, history>>
  BY DEF Filter
<1>2. UNCHANGED <<text, units, config, answered, heard, spotted, sighted, emptied>>
  BY <1>1 DEF vars, history
<1>3. /\ Asked # {} => answered = units
      /\ ~emptied =>
           /\ found = NamesFound \cup DeniedFound \cup PatternsFound
           /\ \A t \in PatternEntities, p \in Places : Opinions(t, p) # {}
  BY <1>1 DEF DetectInv, StageInv
<1>4. ~emptied => found' = Findings
  BY <1>1, <1>3, FilteredFacts DEF DetectInv, IInv
<1>5. /\ Asked' = Asked /\ Places' = Places /\ Served' = Served
      /\ \A t, p : Opinions(t, p)' = Opinions(t, p)
      /\ \A t : Denied(t)' = Denied(t) /\ Threshold(t)' = Threshold(t)
  BY <1>2, AskedSteady, FoundSteady
<1>6. Findings' = Findings
  BY <1>2, <1>5 DEF Findings, Found, Wanted
<1>7. ~emptied => \A t \in config.entities, p \in Places : t \notin Served => Opinions(t, p) # {}
  BY <1>3 DEF PatternEntities
<1>8. ExactlyFound'
  <2>1. ~emptied' => found' = Findings'
    BY <1>2, <1>4, <1>6
  <2>2. Asked' # {} => answered' = units'
    BY <1>2, <1>3, <1>5
  <2>3. ~emptied' => \A t \in config.entities', p \in Places' :
                       t \notin Served' => Opinions(t, p)' # {}
    BY <1>2, <1>5, <1>7
  <2> QED BY <2>1, <2>2, <2>3 DEF ExactlyFound
<1>9. StageInv'
  BY <1>1, <1>8 DEF StageInv
<1>10. AnswersTyped'
  BY <1>2, AnswersSteady DEF DetectInv
<1> QED BY <1>1, <1>9, <1>10, UnitsSteady DEF DetectInv

\* Nothing changes when nothing happens.
LEMMA StillStep ==
  ASSUME DetectInv, UNCHANGED allVars
  PROVE  DetectInv'
<1>1. UNCHANGED <<vars, text, units, config, stage, answered, heard, found, spotted, sighted, emptied>>
  BY DEF allVars, vars, detectVars, history
<1>2. /\ Asked' = Asked /\ Places' = Places /\ Served' = Served /\ Empty' = Empty
      /\ PatternEntities' = PatternEntities
      /\ \A t, p : Opinions(t, p)' = Opinions(t, p)
      /\ \A t : Denied(t)' = Denied(t) /\ Threshold(t)' = Threshold(t)
      /\ NamesFound' = NamesFound /\ DeniedFound' = DeniedFound
      /\ PatternsFound' = PatternsFound
  BY <1>1, AskedSteady, FoundSteady
<1>3. Findings' = Findings
  BY <1>1, <1>2 DEF Findings, Found, Wanted
<1>4. ExactlyFound'
  BY <1>1, <1>2, <1>3 DEF DetectInv, StageInv, ExactlyFound
<1>5. StageInv'
  BY <1>1, <1>2, <1>4 DEF DetectInv, StageInv
<1>6. AnswersTyped'
  BY <1>1, AnswersSteady DEF DetectInv
<1> QED BY <1>1, <1>5, <1>6, UnitsSteady DEF DetectInv

\* Nothing stands in an empty set, so nothing of it is kept.
LEMMA KeptOfNothing == \A excludes : Kept({}, excludes) = {}
<1> SUFFICES ASSUME NEW excludes PROVE Kept({}, excludes) = {}
  OBVIOUS
<1>1. \E kept \in SUBSET {} : \A p \in {} : p \in kept <=> ~\E q \in kept : <<q, p>> \in excludes
  OBVIOUS
<1>2. Kept({}, excludes) \in SUBSET {}
  BY <1>1, Zenon DEF Kept
<1> QED BY <1>2

\* No deny-listed term stands in a blank text.
LEMMA NothingDenied ==
  ASSUME TypeOK, Empty
  PROVE  \A t : Denied(t) = {}
<1>1. text \notin Telling
  <2> SUFFICES ASSUME text \in Telling PROVE FALSE
    OBVIOUS
  <2>1. PICK i \in DOMAIN text : text[i] \notin {"space", "newline"}
    BY PlaceAssumption, Zenon
  <2>2. i \in 1..Len(text) /\ Len(text) \in Nat
    BY TextIsSequence
  <2>3. i - 1 \in 0..(Len(text) - 1) /\ (i - 1) + 1 = i
    BY <2>2
  <2> QED BY <2>1, <2>3 DEF Empty, IsSpace, At
<1>2. \A term : Occurrences(term) = {}
  BY <1>1, KeptOfNothing, Zenon DEF Occurrences
<1> SUFFICES ASSUME NEW t PROVE Denied(t) = {}
  OBVIOUS
<1> DEFINE terms == {k \in DOMAIN Term : TermType[Term[k]] = t}
           hits == UNION {{[rank |-> i, from |-> p.from, to |-> p.to] :
                             p \in {o \in Occurrences(Term[i]) : WholeWord(o)}} : i \in terms}
<1>3. hits = {}
  BY <1>2
<1>4. \E excludes : Denied(t) = {[from |-> h.from, to |-> h.to] : h \in Kept(hits, excludes)}
  BY Zenon DEF Denied
<1> HIDE DEF hits
<1> QED BY <1>3, <1>4, KeptOfNothing

\* Detection starts with nothing asked, and ends there if the text is blank.
LEMMA InitDetectInv == DetectInit => DetectInv
<1> SUFFICES ASSUME DetectInit PROVE DetectInv
  OBVIOUS
<1>1. Init /\ IInv /\ TypeOK
  BY InitIInv DEF DetectInit, IInv
<1>2. WholeSoFar
  BY <1>1 DEF Init, Frontier, WholeSoFar
<1>3. /\ answered = {} /\ heard = {} /\ found = {} /\ spotted = {} /\ sighted = {}
      /\ emptied = FALSE /\ units = {}
      /\ stage = IF Empty THEN "done" ELSE IF Asked = {} THEN "deny" ELSE "names"
  BY DEF DetectInit, Init
<1>4. AnswersTyped
  <2>1. config \in Config
    BY ConfigAssumption DEF DetectInit
  <2> QED BY <1>3, <2>1 DEF AnswersTyped
<1>5. \A t, p : Opinions(t, p) = {}
  BY <1>3 DEF Opinions
<1>6. Empty => Findings = {}
  BY <1>1, <1>5, NothingDenied DEF Findings
<1>7. ExactlyFound
  BY <1>3, <1>6 DEF ExactlyFound
<1>8. NamesFound = {}
  BY <1>5 DEF NamesFound
<1>9. StageInv
  BY <1>3, <1>7, <1>8 DEF StageInv
<1> QED BY <1>1, <1>2, <1>4, <1>9 DEF DetectInv

\* Every step of detection keeps the invariant.
LEMMA NextDetectInv == DetectInv /\ [DetectNext]_allVars => DetectInv'
<1> SUFFICES ASSUME DetectInv, [DetectNext]_allVars PROVE DetectInv'
  OBVIOUS
<1>1. CASE Cut
  BY <1>1, CutStep
<1>2. CASE AnswerBatch
  BY <1>2, AnswerStep
<1>3. CASE BatchFails \/ AnalyzeFails
  BY <1>3, FailStep
<1>4. CASE MergeNames
  BY <1>4, MergeStep
<1>5. CASE FindDenied
  BY <1>5, DenyStep
<1>6. CASE Analyze
  BY <1>6, AnalyzeStep
<1>7. CASE AnalyzeEmpty
  BY <1>7, EmptyStep
<1>8. CASE Filter
  BY <1>8, FilterStep
<1>9. CASE Over \/ UNCHANGED allVars
  BY <1>9, StillStep DEF Over
<1> QED BY <1>1, <1>2, <1>3, <1>4, <1>5, <1>6, <1>7, <1>8, <1>9 DEF DetectNext, Detect

\* The inductive invariant holds during detection.
LEMMA DetectInvariance == DetectSpec => []DetectInv
BY InitDetectInv, NextDetectInv, PTL DEF DetectSpec

\* Nothing a service is sure enough of is lost between the thresholds, the
\* labels, the windows, the batches and the filters, and nothing is added
\* (detectNames, NERLabelsFor, NERMinFor, MinScoreThreshold, the filters of
\* Pseudonymize).
THEOREM NothingIsLost == DetectSpec => []FindingsExact
<1>1. DetectInv => FindingsExact
  BY FindingsFacts DEF DetectInv, StageInv
<1> QED BY <1>1, DetectInvariance, PTL

\* Detection cuts the text as splitUnits does: nothing it does with the units
\* changes them, so what is proved of Units holds of them.
THEOREM DetectionCutsUnits == DetectSpec => Spec
<1>1. DetectInit => Init
  BY DEF DetectInit
<1>2. [DetectNext]_allVars => [Next]_vars
  BY DEF DetectNext, Detect, Cut, AnswerBatch, BatchFails, MergeNames, FindDenied,
         Analyze, AnalyzeFails, AnalyzeEmpty, Filter, Over, allVars
<1> QED BY <1>1, <1>2, PTL DEF DetectSpec, Spec

-----------------------------------------------------------------------------
(* The deny-list is decided, and what is found lies where something stands. *)

\* An order that some things of a set come before others in.
StrictOrder(before, S) ==
  /\ \A x \in S : <<x, x>> \notin before
  /\ \A x, y, z \in S : <<x, y>> \in before /\ <<y, z>> \in before => <<x, z>> \in before

\* A smallest of the finite sets that have something in common.
LEMMA SmallestExists ==
  ASSUME NEW family, family # {}, \A T \in family : IsFiniteSet(T)
  PROVE  \E T \in family : \A U \in family : Cardinality(T) <= Cardinality(U)
<1> DEFINE sizes == {Cardinality(T) : T \in family}
<1>1. sizes \subseteq Nat /\ sizes # {}
  BY FS_CardinalityType
<1>2. PICK n \in sizes : \A k \in sizes : n <= k
  <2> HIDE DEF sizes
  <2> QED BY <1>1, LeastExists
<1> QED BY <1>2

\* Something in a finite set comes first.
LEMMA FirstExists ==
  ASSUME NEW S, IsFiniteSet(S), S # {}, NEW before, StrictOrder(before, S)
  PROVE  \E x \in S : \A y \in S : <<y, x>> \notin before
<1> DEFINE first(T) == \E x \in T : \A y \in T : <<y, x>> \notin before
           bad == {T \in SUBSET S : T # {} /\ ~first(T)}
<1> SUFFICES ASSUME bad # {} PROVE FALSE
  OBVIOUS
<1>1. \A T \in bad : IsFiniteSet(T)
  BY FS_Subset
<1>2. PICK T \in bad : \A U \in bad : Cardinality(T) <= Cardinality(U)
  <2> HIDE DEF bad
  <2> QED BY <1>1, SmallestExists
<1>3. PICK x \in T : TRUE
  OBVIOUS
<1> DEFINE U == T \ {x}
<1>4. U # {}
  <2>1. ASSUME T = {x} PROVE FALSE
    BY <1>2, <2>1 DEF StrictOrder
  <2> QED BY <1>3, <2>1
<1>5. U \notin bad
  <2>1. Cardinality(U) = Cardinality(T) - 1 /\ Cardinality(T) \in Nat
    BY <1>1, <1>3, FS_RemoveElement, FS_CardinalityType
  <2>2. ~(Cardinality(T) <= Cardinality(U))
    <3> HIDE DEF U
    <3> QED BY <2>1
  <2> QED BY <1>2, <2>2
<1>6. PICK m \in U : \A y \in U : <<y, m>> \notin before
  BY <1>4, <1>5
<1>7. x \in S /\ m \in S /\ T \subseteq S /\ ~first(T)
  BY <1>3, <1>6
<1>8. CASE <<x, m>> \notin before
  <2>1. \A y \in T : <<y, m>> \notin before
    BY <1>6, <1>8
  <2> QED BY <1>6, <1>7, <2>1
<1>9. CASE <<x, m>> \in before
  <2>1. ASSUME NEW y \in T, <<y, x>> \in before PROVE FALSE
    <3>1. <<y, m>> \in before
      BY <1>7, <1>9, <2>1 DEF StrictOrder
    <3>2. y # x
      BY <1>7, <2>1 DEF StrictOrder
    <3> QED BY <1>6, <3>1, <3>2
  <2> QED BY <1>3, <1>7, <2>1
<1> QED BY <1>8, <1>9

\* Kept: of some places those that nothing kept excludes.
IsKept(kept, places, excludes) ==
  /\ kept \subseteq places
  /\ \A p \in places : p \in kept <=> ~\E q \in kept : <<q, p>> \in excludes

\* Where only what comes before can exclude, something can be kept.
LEMMA KeptExists ==
  ASSUME NEW S, IsFiniteSet(S), NEW before, StrictOrder(before, S),
         NEW excludes, excludes \subseteq before
  PROVE  \E kept : IsKept(kept, S, excludes)
<1> DEFINE bad == {T \in SUBSET S : ~\E kept : IsKept(kept, T, excludes)}
<1> SUFFICES ASSUME bad # {} PROVE FALSE
  OBVIOUS
<1>1. \A T \in bad : IsFiniteSet(T)
  BY FS_Subset
<1>2. PICK T \in bad : \A U \in bad : Cardinality(T) <= Cardinality(U)
  <2> HIDE DEF bad
  <2> QED BY <1>1, SmallestExists
<1>3. T # {}
  <2>1. IsKept({}, {}, excludes)
    BY DEF IsKept
  <2> QED BY <1>2, <2>1
<1>4. PICK x \in T : \A y \in T : <<y, x>> \notin before
  <2>1. StrictOrder(before, T) /\ IsFiniteSet(T)
    BY <1>1 DEF StrictOrder
  <2> QED BY <1>3, <2>1, FirstExists
<1> DEFINE U == {y \in T : y # x /\ <<x, y>> \notin excludes}
<1>5. U \notin bad
  <2>1. Cardinality(T \ {x}) = Cardinality(T) - 1 /\ Cardinality(T) \in Nat /\ IsFiniteSet(T \ {x})
    BY <1>1, <1>4, FS_RemoveElement, FS_CardinalityType
  <2>2. Cardinality(U) <= Cardinality(T \ {x}) /\ Cardinality(U) \in Nat
    BY <2>1, FS_Subset, FS_CardinalityType
  <2>3. ~(Cardinality(T) <= Cardinality(U))
    <3> HIDE DEF U
    <3> QED BY <2>1, <2>2
  <2> QED BY <1>2, <2>3
<1>6. PICK rest : IsKept(rest, U, excludes)
  BY <1>5
<1>7. IsKept(rest \cup {x}, T, excludes)
  <2>1. rest \subseteq U /\ U \subseteq T
    BY <1>6 DEF IsKept
  <2>2. \A q \in rest \cup {x} : <<q, x>> \notin excludes
    BY <1>4, <2>1
  <2>3. ASSUME NEW p \in T
        PROVE  p \in rest \cup {x} <=> ~\E q \in rest \cup {x} : <<q, p>> \in excludes
    <3>1. CASE p = x
      BY <2>2, <3>1
    <3>2. CASE p \in U
      BY <1>6, <3>2 DEF IsKept
    <3>3. CASE p # x /\ <<x, p>> \in excludes
      BY <2>1, <3>3
    <3> QED BY <3>1, <3>2, <3>3
  <2> QED BY <1>4, <2>1, <2>3 DEF IsKept
<1> QED BY <1>2, <1>7

\* And in one way only.
LEMMA KeptIsUnique ==
  ASSUME NEW S, IsFiniteSet(S), NEW before, StrictOrder(before, S),
         NEW excludes, excludes \subseteq before,
         NEW one, IsKept(one, S, excludes), NEW other, IsKept(other, S, excludes)
  PROVE  one = other
<1> DEFINE apart == (one \ other) \cup (other \ one)
<1>1. apart \subseteq S
  BY DEF IsKept
<1> SUFFICES ASSUME apart # {} PROVE FALSE
  OBVIOUS
<1>2. PICK x \in apart : \A y \in apart : <<y, x>> \notin before
  <2>1. IsFiniteSet(apart) /\ StrictOrder(before, apart)
    BY <1>1, FS_Subset DEF StrictOrder
  <2> HIDE DEF apart
  <2> QED BY <2>1, FirstExists
<1>3. ASSUME NEW a, NEW b, IsKept(a, S, excludes), IsKept(b, S, excludes),
             x \in a, x \notin b, \A y \in a \cup b : y \notin apart <=> (y \in a /\ y \in b)
      PROVE  FALSE
  <2>1. PICK q \in b : <<q, x>> \in excludes
    BY <1>3 DEF IsKept
  <2>2. q \notin a
    BY <1>3, <2>1 DEF IsKept
  <2> QED BY <1>2, <1>3, <2>1, <2>2
<1> QED BY <1>2, <1>3

\* So Kept is what is kept.
LEMMA KeptFacts ==
  ASSUME NEW S, IsFiniteSet(S), NEW before, StrictOrder(before, S),
         NEW excludes, excludes \subseteq before
  PROVE  /\ IsKept(Kept(S, excludes), S, excludes)
         /\ \A kept : IsKept(kept, S, excludes) => kept = Kept(S, excludes)
<1>1. \E kept \in SUBSET S : \A p \in S : p \in kept <=> ~\E q \in kept : <<q, p>> \in excludes
  <2>1. PICK some : IsKept(some, S, excludes)
    BY KeptExists
  <2> QED BY <2>1, Zenon DEF IsKept
<1>2. IsKept(Kept(S, excludes), S, excludes)
  BY <1>1, Zenon DEF Kept, IsKept
<1> QED BY <1>2, KeptIsUnique, Zenon


\* The terms are listed, and each stands at finitely many places.
LEMMA TermsFacts ==
  /\ Len(Term) \in Nat /\ DOMAIN Term = 1..Len(Term)
  /\ \A i \in 1..Len(Term) : Term[i] \in DOMAIN TermType
  /\ \A term \in DOMAIN TermType : IsFiniteSet(Matches[term]) /\ Matches[term] \subseteq Interval
<1>1. Term \in Seq(DOMAIN TermType)
  BY PlaceAssumption, Zenon
<1>2. Matches \in [DOMAIN TermType -> SUBSET Interval]
  BY PlaceAssumption, Zenon
<1>3. \A term \in DOMAIN TermType : IsFiniteSet(Matches[term])
  BY PlaceAssumption, Zenon
<1>4. \A term \in DOMAIN TermType : Matches[term] \subseteq Interval
  BY <1>2
<1>5. /\ Len(Term) \in Nat /\ DOMAIN Term = 1..Len(Term)
      /\ \A i \in 1..Len(Term) : Term[i] \in DOMAIN TermType
  BY <1>1
<1> QED BY <1>3, <1>4, <1>5

\* The places of the text where a term stands, overlapping ones included.
Stands(term) == IF text \in Telling THEN Matches[term] ELSE {}

\* A regular expression keeps some of the places where its term stands, and what
\* it does not keep begins inside one that it does.
LEMMA OccurrencesFacts ==
  ASSUME NEW term \in DOMAIN TermType
  PROVE  /\ Occurrences(term) \subseteq Matches[term]
         /\ \A p \in Stands(term) \ Occurrences(term) :
              \E o \in Occurrences(term) : Overlaps(o, p) /\ o.from < p.from
<1> DEFINE all == Stands(term)
           before == {pair \in all \X all : pair[1].from < pair[2].from}
           excludes == {pair \in all \X all :
                          Overlaps(pair[1], pair[2]) /\ pair[1].from < pair[2].from}
<1>1. IsFiniteSet(all) /\ all \subseteq Matches[term] /\ \A p \in all : p.from \in Nat
  <2>1. IsFiniteSet(Matches[term]) /\ \A p \in Matches[term] : p.from \in Nat
    BY TermsFacts DEF Interval
  <2> QED BY <2>1, FS_EmptySet DEF Stands
<1>2. Occurrences(term) = Kept(all, excludes)
  BY Zenon DEF Occurrences, Stands
<1>3. excludes \subseteq before
  OBVIOUS
<1> HIDE DEF all
<1>4. StrictOrder(before, all)
  BY <1>1 DEF StrictOrder
<1>5. IsKept(Occurrences(term), all, excludes)
  <2> HIDE DEF before, excludes
  <2> QED BY <1>1, <1>2, <1>3, <1>4, KeptFacts
<1>6. Occurrences(term) \subseteq Matches[term]
  BY <1>1, <1>5 DEF IsKept
<1>7. ASSUME NEW p \in all, p \notin Occurrences(term)
      PROVE  \E o \in Occurrences(term) : Overlaps(o, p) /\ o.from < p.from
  <2>1. PICK o \in Occurrences(term) : <<o, p>> \in excludes
    <3> HIDE DEF excludes
    <3> QED BY <1>5, <1>7 DEF IsKept
  <2> QED BY <2>1
<1> QED BY <1>6, <1>7 DEF all

\* The whole words among the occurrences of a type's terms.
Standing(type) ==
  UNION {{[rank |-> i, from |-> p.from, to |-> p.to] :
            p \in {o \in Occurrences(Term[i]) : WholeWord(o)}} :
         i \in {k \in DOMAIN Term : TermType[Term[k]] = type}}

\* The place of an entry of Standing.
Ends(h) == [from |-> h.from, to |-> h.to]

\* A term that stands somewhere is listed, and the text has the place.
LEMMA StandingFacts ==
  ASSUME NEW type, NEW h \in Standing(type)
  PROVE  /\ h.rank \in 1..Len(Term) /\ TermType[Term[h.rank]] = type
         /\ h = [rank |-> h.rank, from |-> h.from, to |-> h.to]
         /\ Ends(h) \in Occurrences(Term[h.rank]) /\ WholeWord(Ends(h))
         /\ Ends(h) \in MatchPlaces /\ h.from \in Nat /\ h.to \in Nat
<1>1. PICK i \in {k \in DOMAIN Term : TermType[Term[k]] = type} :
        \E p \in {o \in Occurrences(Term[i]) : WholeWord(o)} :
          h = [rank |-> i, from |-> p.from, to |-> p.to]
  BY DEF Standing
<1>2. PICK p \in Occurrences(Term[i]) :
        WholeWord(p) /\ h = [rank |-> i, from |-> p.from, to |-> p.to]
  BY <1>1
<1>3. Term[i] \in DOMAIN TermType /\ DOMAIN Term = 1..Len(Term)
  BY TermsFacts
<1>4. p \in Matches[Term[i]] /\ Matches[Term[i]] \subseteq Interval
  BY <1>3, OccurrencesFacts, TermsFacts
<1>5. p = [from |-> p.from, to |-> p.to] /\ p.from \in Nat /\ p.to \in Nat
  BY <1>4 DEF Interval
<1>6. p \in MatchPlaces
  BY <1>4 DEF MatchPlaces
<1>7. h.rank = i /\ h.from = p.from /\ h.to = p.to /\ Ends(h) = p
  BY <1>2, <1>5 DEF Ends
<1> QED BY <1>1, <1>2, <1>3, <1>5, <1>6, <1>7

\* There are finitely many.
LEMMA StandingIsFinite == ASSUME NEW type PROVE IsFiniteSet(Standing(type))
<1> DEFINE ranks == 1..Len(Term)
           places == [i \in ranks |-> Matches[Term[i]]]
           sets == {places[i] : i \in ranks}
           entry == [x \in ranks \X MatchPlaces |-> [rank |-> x[1], from |-> x[2].from, to |-> x[2].to]]
           entries == {entry[x] : x \in ranks \X MatchPlaces}
<1>1. Len(Term) \in Nat /\ DOMAIN Term = ranks /\ \A i \in ranks : Term[i] \in DOMAIN TermType
  BY TermsFacts
<1>2. IsFiniteSet(ranks)
  BY <1>1, FS_Interval
<1>3. IsFiniteSet(sets)
  <2>1. places \in Surjection(ranks, sets)
    BY DEF Surjection
  <2> QED BY <1>2, <2>1, FS_Surjection
<1>4. IsFiniteSet(MatchPlaces)
  <2>1. \A T \in sets : IsFiniteSet(T)
    BY <1>1, TermsFacts
  <2>2. MatchPlaces = UNION sets
    BY <1>1 DEF MatchPlaces
  <2> HIDE DEF sets
  <2> QED BY <1>3, <2>1, <2>2, FS_UNION
<1>5. IsFiniteSet(entries)
  <2>1. entry \in Surjection(ranks \X MatchPlaces, entries)
    BY DEF Surjection
  <2>2. IsFiniteSet(ranks \X MatchPlaces)
    BY <1>2, <1>4, FS_Product
  <2> HIDE DEF entry, entries
  <2> QED BY <2>1, <2>2, FS_Surjection
<1>6. ASSUME NEW h \in Standing(type) PROVE h \in entries
  <2>1. /\ h.rank \in ranks /\ Ends(h) \in MatchPlaces
        /\ h = [rank |-> h.rank, from |-> h.from, to |-> h.to]
    BY StandingFacts
  <2>2. entry[<<h.rank, Ends(h)>>] = h
    BY <2>1 DEF Ends
  <2> QED BY <2>1, <2>2
<1> HIDE DEF entries
<1> QED BY <1>5, <1>6, FS_Subset

\* Of two overlapping terms the longer prevails, of two equally long ones the
\* one listed first.
Prevails(q, p) ==
  /\ Overlaps(q, p)
  /\ \/ q.to - q.from > p.to - p.from
     \/ q.to - q.from = p.to - p.from /\ q.rank < p.rank

\* What Find returns is what no other that it returns prevails over, and nothing
\* else could be (Find, overlaps).
LEMMA DenyListDecided ==
  ASSUME NEW type
  PROVE  \E kept \in SUBSET Standing(type) :
           /\ Denied(type) = {Ends(h) : h \in kept}
           /\ \A p \in Standing(type) : p \in kept <=> ~\E q \in kept : Prevails(q, p)
           /\ \A other \in SUBSET Standing(type) :
                (\A p \in Standing(type) : p \in other <=> ~\E q \in other : Prevails(q, p))
                  => other = kept
<1> DEFINE hits == Standing(type)
           longer(q, p) == \/ q.to - q.from > p.to - p.from
                           \/ q.to - q.from = p.to - p.from /\ q.rank < p.rank
           before == {pair \in hits \X hits : longer(pair[1], pair[2])}
           excludes == {pair \in hits \X hits :
                          Overlaps(pair[1], pair[2]) /\ longer(pair[1], pair[2])}
           kept == Kept(hits, excludes)
<1>1. Denied(type) = {Ends(h) : h \in kept}
  BY Zenon DEF Denied, Standing, Ends
<1>2. IsFiniteSet(hits)
  BY StandingIsFinite
<1>3. \A h \in hits : h.rank \in Nat /\ h.from \in Nat /\ h.to \in Nat
  BY StandingFacts, TermsFacts
<1>4. excludes \subseteq before
  OBVIOUS
<1>5. \A q, p \in hits : <<q, p>> \in excludes <=> Prevails(q, p)
  BY DEF Prevails
<1> HIDE DEF hits
<1>6. StrictOrder(before, hits)
  BY <1>3 DEF StrictOrder
<1> HIDE DEF before, excludes, kept
<1>7. /\ IsKept(kept, hits, excludes)
      /\ \A other : IsKept(other, hits, excludes) => other = kept
  BY <1>2, <1>4, <1>6, KeptFacts DEF kept
<1>8. kept \in SUBSET hits /\ \A p \in hits : p \in kept <=> ~\E q \in kept : Prevails(q, p)
  BY <1>5, <1>7 DEF IsKept
<1>9. ASSUME NEW other \in SUBSET hits,
             \A p \in hits : p \in other <=> ~\E q \in other : Prevails(q, p)
      PROVE  other = kept
  <2>1. IsKept(other, hits, excludes)
    BY <1>5, <1>9 DEF IsKept
  <2> QED BY <1>7, <2>1
<1> QED BY <1>1, <1>8, <1>9 DEF hits

\* What is denied stands in the text, and a term that stands in it is denied, or
\* one that overlaps it is.
LEMMA DeniedStands ==
  ASSUME NEW type
  PROVE  /\ Denied(type) \subseteq MatchPlaces
         /\ \A h \in Standing(type) :
              \E p \in Denied(type) : p = Ends(h) \/ Overlaps(p, h)
<1>1. PICK kept \in SUBSET Standing(type) :
        /\ Denied(type) = {Ends(h) : h \in kept}
        /\ \A p \in Standing(type) : p \in kept <=> ~\E q \in kept : Prevails(q, p)
  BY DenyListDecided
<1>2. Denied(type) \subseteq MatchPlaces
  BY <1>1, StandingFacts
<1>3. ASSUME NEW h \in Standing(type)
      PROVE  \E p \in Denied(type) : p = Ends(h) \/ Overlaps(p, h)
  <2>1. CASE h \in kept
    BY <1>1, <2>1
  <2>2. CASE h \notin kept
    <3>1. PICK q \in kept : Prevails(q, h)
      BY <1>1, <2>2
    <3>2. Overlaps(Ends(q), h) /\ Ends(q) \in Denied(type)
      BY <1>1, <3>1 DEF Prevails, Overlaps, Ends
    <3> QED BY <3>2
  <2> QED BY <2>1, <2>2
<1> QED BY <1>2, <1>3


-----------------------------------------------------------------------------
(* What is found is typed, and no deny-listed term is lost. *)

\* A detection lies where something stands that may be found.
Detection(d) ==
  /\ d.type \in Type /\ d.score \in Score
  /\ [from |-> d.from, to |-> d.to] \in Place \cup MatchPlaces

\* DetectInv, and where the places lie that were seen and found.
TypedInv ==
  /\ DetectInv
  /\ emptied \in BOOLEAN
  /\ \A s \in spotted : /\ s.glance.unit \in answered
                        /\ Inside(s.glance.place.from, s.glance.place.to, s.glance.unit)
  /\ \A d \in found : Detection(d)
  /\ stage \in {"patterns", "filter"} => DeniedFound \subseteq found

\* Types and scores of a configuration.
LEMMA ConfigFacts ==
  ASSUME config \in Config
  PROVE  /\ config.entities \subseteq Type
         /\ DOMAIN config.labels \subseteq Label
         /\ \A l \in DOMAIN config.labels : config.labels[l] \in Type
BY ConfigAssumption

\* The certain score is a score.
LEMMA MostIsScore == Most(Score) \in Score
BY MostFacts, PlaceAssumption

\* A place that may be seen is one the services may have an opinion of.
LEMMA PlaceFacts ==
  ASSUME NEW p \in Places
  PROVE  /\ p \in Place /\ p = [from |-> p.from, to |-> p.to]
         /\ p.from \in Nat /\ p.to \in Nat /\ p.from < p.to
<1>1. p \in Place /\ p \in Interval
  BY PlacesAreIntervals DEF Places
<1>2. \A q \in Place : q.from < q.to
  BY PlaceAssumption, Zenon
<1> QED BY <1>1, <1>2, PlacesAreIntervals

\* What is found of an enabled type in such a place is a detection.
LEMMA FoundIsDetection ==
  ASSUME NEW t \in Type, NEW p, p = [from |-> p.from, to |-> p.to],
         p \in Place \cup MatchPlaces, NEW x \in Score
  PROVE  Detection(Found(t, p, x))
<1>1. LET d == Found(t, p, x)
      IN  d.type = t /\ d.score = x /\ [from |-> d.from, to |-> d.to] = p
  BY DEF Found
<1> QED BY <1>1 DEF Detection

\* So is what the span model's answers come to.
LEMMA NamesTyped ==
  ASSUME AnswersTyped, NEW d \in NamesFound
  PROVE  Detection(d)
<1>1. PICK t \in Served, p \in Places :
        Opinions(t, p) # {} /\ d = Found(t, p, Most(Opinions(t, p)))
  BY DEF NamesFound
<1>2. Most(Opinions(t, p)) \in Score
  BY <1>1, OpinionsAreScores, MostFacts
<1>3. t \in Type
  BY ConfigFacts, ServedFacts DEF AnswersTyped
<1> QED BY <1>1, <1>2, <1>3, PlaceFacts, FoundIsDetection

\* And what the deny-list adds.
LEMMA DeniedTyped ==
  ASSUME AnswersTyped, NEW d \in DeniedFound
  PROVE  Detection(d)
<1>1. PICK t \in Served : \E p \in Denied(t) : d = Found(t, p, Most(Score))
  BY DEF DeniedFound
<1>2. PICK p \in Denied(t) : d = Found(t, p, Most(Score))
  BY <1>1
<1>3. t \in Type
  BY ConfigFacts, ServedFacts DEF AnswersTyped
<1> QED BY <1>2, <1>3, DeniedStands, DeniedFacts, MostIsScore, FoundIsDetection

\* While text and configuration stay, so does what is denied.
LEMMA DeniedSteady ==
  ASSUME UNCHANGED <<text, config>>
  PROVE  DeniedFound' = DeniedFound
BY AskedSteady DEF DeniedFound, Found

\* The types stay right in every step.
LEMMA NextTypedInv == TypedInv /\ [DetectNext]_allVars => TypedInv'
<1> SUFFICES ASSUME TypedInv, [DetectNext]_allVars PROVE TypedInv'
  OBVIOUS
<1>1. DetectInv /\ DetectInv' /\ AnswersTyped
  BY NextDetectInv DEF TypedInv, DetectInv
<1>2. UNCHANGED <<text, config>>
  BY DEF DetectNext, Detect, Cut, AnswerBatch, BatchFails, MergeNames, FindDenied, Analyze,
     AnalyzeFails, AnalyzeEmpty, Filter, Over, allVars, vars, detectVars, Next, SkipBlankLine,
     WholeLine, LongLine, Window, LastWindow, Done
<1>3. DeniedFound' = DeniedFound
  BY <1>2, DeniedSteady
<1>4. CASE AnswerBatch
  <2>1. /\ answered' = answered \cup Batch /\ UNCHANGED <<stage, found, emptied>>
        /\ \E scores \in [UNION {Glances(u) : u \in Batch} -> Score] :
             spotted' = spotted \cup {[glance |-> g, score |-> scores[g]] : g \in DOMAIN scores}
    BY <1>4 DEF AnswerBatch
  <2>2. PICK scores \in [UNION {Glances(u) : u \in Batch} -> Score] :
          spotted' = spotted \cup {[glance |-> g, score |-> scores[g]] : g \in DOMAIN scores}
    BY <2>1
  <2>3. ASSUME NEW g \in DOMAIN scores
        PROVE  g.unit \in Batch /\ Inside(g.place.from, g.place.to, g.unit)
    BY <2>3 DEF Glances
  <2>4. \A s \in spotted' : /\ s.glance.unit \in answered'
                            /\ Inside(s.glance.place.from, s.glance.place.to, s.glance.unit)
    BY <2>1, <2>2, <2>3 DEF TypedInv
  <2> QED BY <1>1, <1>3, <2>1, <2>4 DEF TypedInv, Detection
<1>5. CASE MergeNames
  <2>1. stage' = "deny" /\ UNCHANGED <<vars, config, answered, heard, history>>
    BY <1>5 DEF MergeNames
  <2>2. found' = NamesFound
    BY <1>1, <2>1, FoundSteady DEF DetectInv, StageInv, vars, history
  <2>3. \A d \in found' : Detection(d)
    BY <1>1, <2>2, NamesTyped
  <2> QED BY <1>1, <2>1, <2>3 DEF TypedInv, Detection, history
<1>6. CASE FindDenied
  <2>1. /\ stage' \in {"filter", "patterns"} /\ found' = found \cup DeniedFound
        /\ UNCHANGED <<vars, config, answered, heard, history>>
    BY <1>6 DEF FindDenied, DeniedFound, Found
  <2>2. \A d \in found' : Detection(d)
    BY <1>1, <2>1, DeniedTyped DEF TypedInv
  <2> QED BY <1>1, <1>3, <2>1, <2>2 DEF TypedInv, Detection, history
<1>7. CASE Analyze
  <2>1. /\ stage = "patterns" /\ UNCHANGED <<vars, config, answered, heard, spotted, emptied>>
        /\ \E scores \in [Places \X config.entities -> Score] :
             found' = found \cup
               {d \in {[type |-> g[2], from |-> g[1].from, to |-> g[1].to, score |-> scores[g]] :
                         g \in DOMAIN scores} :
                  d.type \in PatternEntities /\ d.score >= MinScoreThreshold}
    BY <1>7 DEF Analyze
  <2>2. PICK scores \in [Places \X config.entities -> Score] :
          found' = found \cup
            {d \in {[type |-> g[2], from |-> g[1].from, to |-> g[1].to, score |-> scores[g]] :
                      g \in DOMAIN scores} :
               d.type \in PatternEntities /\ d.score >= MinScoreThreshold}
    BY <2>1
  <2>3. ASSUME NEW g \in DOMAIN scores
        PROVE  Detection(Found(g[2], g[1], scores[g]))
    <3>1. g[1] \in Places /\ g[2] \in config.entities /\ scores[g] \in Score
      BY <2>3
    <3>2. g[2] \in Type
      BY <1>1, <3>1, ConfigFacts DEF AnswersTyped
    <3> QED BY <3>1, <3>2, PlaceFacts, FoundIsDetection
  <2>4. \A d \in found' : Detection(d)
    BY <2>2, <2>3 DEF TypedInv, Found
  <2>5. found \subseteq found'
    BY <2>2
  <2> QED BY <1>1, <1>3, <2>1, <2>4, <2>5 DEF TypedInv, Detection
<1>8. CASE Filter
  <2>1. /\ stage' = "done" /\ found' \subseteq found
        /\ UNCHANGED <<vars, config, answered, heard, history>>
    BY <1>8 DEF Filter
  <2> QED BY <1>1, <2>1 DEF TypedInv, Detection, history
<1>9. CASE BatchFails \/ AnalyzeFails
  <2>1. stage' = "failed" /\ UNCHANGED <<answered, found, history>>
    BY <1>9 DEF BatchFails, AnalyzeFails
  <2> QED BY <1>1, <2>1 DEF TypedInv, Detection, history
<1>10. CASE AnalyzeEmpty
  <2>1. stage = "patterns" /\ emptied' = TRUE /\ UNCHANGED <<answered, found, spotted>>
    BY <1>10 DEF AnalyzeEmpty
  <2> QED BY <1>1, <1>3, <2>1 DEF TypedInv, Detection
<1>11. CASE Cut \/ Over \/ UNCHANGED allVars
  <2>1. UNCHANGED <<stage, answered, found, spotted, emptied>>
    BY <1>11 DEF Cut, Over, allVars, detectVars, history
  <2> QED BY <1>1, <1>3, <2>1 DEF TypedInv, Detection
<1> QED BY <1>4, <1>5, <1>6, <1>7, <1>8, <1>9, <1>10, <1>11 DEF DetectNext, Detect

\* Detection starts with nothing found.
LEMMA InitTypedInv == DetectInit => TypedInv
<1> SUFFICES ASSUME DetectInit PROVE TypedInv
  OBVIOUS
<1>1. DetectInv
  BY InitDetectInv
<1>2. /\ spotted = {} /\ found = {} /\ emptied = FALSE
      /\ stage \in {"done", "deny", "names"}
  BY DEF DetectInit
<1> QED BY <1>1, <1>2 DEF TypedInv

\* So they are right always.
LEMMA TypedInvariance == DetectSpec => []TypedInv
BY InitTypedInv, NextTypedInv, PTL DEF DetectSpec

\* Whatever the services answer, in whatever batches: what is heard lies in a
\* unit that was asked about, and what is found is of a configured type and lies
\* where a service saw something or a deny-listed term stands, each offset in a
\* unit turned into the offset in the text (detectNames, Find, Detect).
THEOREM DetectionsTyped == DetectSpec => []DetectTypeOK
<1>1. TypedInv => DetectTypeOK
  <2> SUFFICES ASSUME TypedInv PROVE DetectTypeOK
    OBVIOUS
  <2>1. /\ TypeOK /\ AnswersTyped /\ emptied \in BOOLEAN
        /\ stage \in {"names", "deny", "patterns", "filter", "done", "failed"}
    BY DEF TypedInv, DetectInv, IInv, StageInv
  <2>2. ASSUME NEW h \in heard
        PROVE  /\ h.unit \in answered /\ h.label \in Label /\ h.score \in Score
               /\ 0 <= h.from /\ h.from < h.to /\ h.to <= h.unit.to - h.unit.from
    <3>1. PICK s \in spotted : h = Report(s)
      BY <2>1 DEF AnswersTyped
    <3>2. /\ h.unit = s.glance.unit /\ h.label = s.glance.label /\ h.score = s.score
          /\ h.from = s.glance.place.from - s.glance.unit.from
          /\ h.to = s.glance.place.to - s.glance.unit.from
      BY <3>1 DEF Report
    <3>3. /\ s.glance.unit \in answered /\ s.glance.unit \in units /\ s.glance.place \in Places
          /\ s.glance.label \in Label /\ s.score \in Score
          /\ Inside(s.glance.place.from, s.glance.place.to, s.glance.unit)
      BY <2>1, ConfigFacts DEF TypedInv, AnswersTyped
    <3>4. s.glance.unit.from \in Nat /\ s.glance.unit.to \in Nat
      BY <2>1, <3>3 DEF TypeOK, Interval
    <3>5. /\ s.glance.place.from \in Nat /\ s.glance.place.to \in Nat
          /\ s.glance.place.from < s.glance.place.to
      BY <3>3, PlaceFacts
    <3>6. s.glance.unit.from <= s.glance.place.from /\ s.glance.place.to <= s.glance.unit.to
      BY <3>3 DEF Inside
    <3> QED BY <3>2, <3>3, <3>4, <3>5, <3>6
  <2>3. config \in Config /\ answered \subseteq units
    BY <2>1 DEF AnswersTyped
  <2> QED BY <2>1, <2>2, <2>3 DEF DetectTypeOK, TypedInv, Detection
<1> QED BY <1>1, TypedInvariance, PTL

\* A place is reported for a type: itself or one that overlaps it, for certain.
Heard(type, p) ==
  \E d \in found : /\ d.type = type /\ d.score = Most(Score)
                   /\ (d.from = p.from /\ d.to = p.to) \/ Overlaps(d, p)

\* Wherever a term of a type the span model serves stands as a whole word, the
\* place is found for certain, or a place of the type that overlaps it is --
\* unless an earlier match of the term itself runs into it.  Such a match is heard
\* in its place when it is a whole word; when it is not, neither is: "a a" stands
\* at 3 in "xa a a", but the regular expression is past it (Find).
DenyListHeard ==
  stage \in {"patterns", "filter"} =>
    \A i \in DOMAIN Term : TermType[Term[i]] \in Served =>
      \A p \in Stands(Term[i]) : WholeWord(p) =>
        \/ Heard(TermType[Term[i]], p)
        \/ \E o \in Occurrences(Term[i]) :
             /\ Overlaps(o, p) /\ o.from < p.from
             /\ WholeWord(o) => Heard(TermType[Term[i]], o)

\* What the regular expression finds as a whole word is heard.
LEMMA OccurrenceHeard ==
  ASSUME TypedInv, stage \in {"patterns", "filter"}, NEW i \in DOMAIN Term,
         NEW o \in Occurrences(Term[i]), WholeWord(o), TermType[Term[i]] \in Served
  PROVE  Heard(TermType[Term[i]], o)
<1> DEFINE h == [rank |-> i, from |-> o.from, to |-> o.to]
           t == TermType[Term[i]]
<1>1. h \in Standing(t)
  BY DEF Standing
<1>2. PICK p \in Denied(t) : p = Ends(h) \/ Overlaps(p, h)
  BY <1>1, DeniedStands
<1> DEFINE d == Found(t, p, Most(Score))
<1>3. d \in found
  BY <1>2 DEF TypedInv, DeniedFound
<1>4. (p.from = o.from /\ p.to = o.to) \/ Overlaps(p, o)
  BY <1>2 DEF Ends, Overlaps
<1>5. d.type = t /\ d.score = Most(Score) /\ d.from = p.from /\ d.to = p.to
  BY DEF Found
<1>6. (d.from = o.from /\ d.to = o.to) \/ Overlaps(d, o)
  BY <1>4, <1>5 DEF Overlaps
<1> HIDE DEF d
<1> QED BY <1>3, <1>5, <1>6 DEF Heard

\* No place of a deny-listed term is lost among the others that stand in a text,
\* but behind an earlier match of the same term (Find, overlaps).
THEOREM DeniedTermsFound == DetectSpec => []DenyListHeard
<1>1. TypedInv => DenyListHeard
  <2> SUFFICES ASSUME TypedInv, stage \in {"patterns", "filter"}, NEW i \in DOMAIN Term,
                      TermType[Term[i]] \in Served, NEW p \in Stands(Term[i]), WholeWord(p),
                      ~Heard(TermType[Term[i]], p)
               PROVE  \E o \in Occurrences(Term[i]) :
                        /\ Overlaps(o, p) /\ o.from < p.from
                        /\ WholeWord(o) => Heard(TermType[Term[i]], o)
    BY Zenon DEF DenyListHeard
  <2>1. p \notin Occurrences(Term[i])
    BY OccurrenceHeard
  <2>2. Term[i] \in DOMAIN TermType
    BY TermsFacts
  <2>3. PICK o \in Occurrences(Term[i]) : Overlaps(o, p) /\ o.from < p.from
    BY <2>1, <2>2, OccurrencesFacts
  <2>4. WholeWord(o) => Heard(TermType[Term[i]], o)
    BY OccurrenceHeard
  <2> QED BY <2>3, <2>4
<1> QED BY <1>1, TypedInvariance, PTL
=============================================================================
