---------------------------- MODULE MCStreaming ----------------------------
(***************************************************************************)
(* An alphabet of two names and their pseudonyms.  "A B" is a full name    *)
(* (A its first, B its last name); its pseudonym is "Xw Y".                *)
(***************************************************************************)
EXTENDS Streaming, TLC

CONSTANT MaxLen  \* bound on the length of a prompt

Cased == {<<"A", "a">>, <<"B", "b">>, <<"X", "x">>, <<"W", "w">>, <<"Y", "y">>, <<"S", "s">>}
Caseless == {" ", "'"}
MCChar == {p[1] : p \in Cased} \cup {p[2] : p \in Cased} \cup Caseless
MCLower == [c \in MCChar |-> IF \E p \in Cased : p[1] = c
                             THEN (CHOOSE p \in Cased : p[1] = c)[2] ELSE c]
MCUpper == [c \in MCChar |-> IF \E p \in Cased : p[2] = c
                             THEN (CHOOSE p \in Cased : p[2] = c)[1] ELSE c]
MCLetter == MCChar \ Caseless
MCEnding == {<<"'", "s">>, <<"'">>}

Strings(chars, n) == UNION {[1..k -> chars] : k \in 1..n}

FullName == <<"A", " ", "B">>
FullPseudonym == <<"X", "w", " ", "Y">>

\* Short prompts, and the full name between other characters.
PromptChar == {"A", "a", "B", " ", "'", "s"}
MCPrompt ==
  Strings(PromptChar, MaxLen)
    \cup {<<c>> \o FullName \o <<d, e>> : c, d, e \in PromptChar}
\* Names with or without a letter directly before or behind them.
NamesInWords == Strings({"A", "B", " ", "s"}, MaxLen)

MCForward == FullName :> FullPseudonym @@ <<"A">> :> <<"X", "w">> @@ <<"B">> :> <<"Y">>
MCBackward == FullPseudonym :> FullName @@ <<"X", "w">> :> <<"A">> @@ <<"Y">> :> <<"B">>

\* The model uses a word that begins like a pseudonym, and pseudonyms that
\* stand apart.
MCFree == {<<"X", "w", "s">>, <<"Y", " ", "X", "w", " ", "b">>,
           <<"X", " ", "y", "'", "s", " ", "X", "W">>}
=============================================================================
