------------------------------- MODULE MCWaeg -------------------------------
(***************************************************************************)
(* Two requests and every relation of their identities.  "A" and "B" are   *)
(* names, "Xw", "Y" and "Y w" the pool.                                    *)
(***************************************************************************)
EXTENDS Waeg, TLC

CONSTANTS thread, user, call1, call2, waegAnon, r1, r2

Cased == {<<"A", "a">>, <<"B", "b">>, <<"X", "x">>, <<"W", "w">>, <<"Y", "y">>, <<"S", "s">>}
Caseless == {" ", "'"}
MCChar == {p[1] : p \in Cased} \cup {p[2] : p \in Cased} \cup Caseless
MCLower == [c \in MCChar |-> IF \E p \in Cased : p[1] = c
                             THEN (CHOOSE p \in Cased : p[1] = c)[2] ELSE c]
MCUpper == [c \in MCChar |-> IF \E p \in Cased : p[2] = c
                             THEN (CHOOSE p \in Cased : p[2] = c)[1] ELSE c]
MCLetter == MCChar \ Caseless
MCEnding == {<<"'", "s">>, <<"'">>}

MCNamed == <<<<"A">>, <<"B">>>>
MCPool == <<<<"X", "w">>, <<"Y">>, <<"Y", " ", "w">>>>

MCId == {thread, user, call1, call2, waegAnon}
MCSanitize == [i \in MCId |-> i]

Known(session, person, call) == [session |-> session, user |-> person, request |-> call]

\* Two requests of one user, of one thread, of a user and of a stranger, of two
\* strangers, and two without any identification.
MCIdentities ==
  {r1 :> Known(NoId, user, call1) @@ r2 :> Known(NoId, user, call2),
   r1 :> Known(thread, user, call1) @@ r2 :> Known(thread, NoId, call2),
   r1 :> Known(NoId, user, call1) @@ r2 :> Known(NoId, NoId, call2),
   r1 :> Known(NoId, NoId, call1) @@ r2 :> Known(NoId, NoId, call2),
   r1 :> Known(NoId, NoId, NoId) @@ r2 :> Known(NoId, NoId, NoId)}

Texts(chars, n) == UNION {[1..k -> chars] : k \in 1..n}

\* The first request may have any short prompt, the other has one.
MCPromptsOf == r1 :> (Texts({"A", "B", " ", "s"}, 3) \cup Texts({"A", " ", "s"}, 4)) @@ r2 :> {<<"B", " ", "Y">>}

\* One request, of a name, blanks and more.
OneUser == {r1 :> Known(NoId, user, call1)}
Spaced == r1 :> {<<"A", " ", " ", "s">>}

\* The model says a pseudonym, or words that begin like one.
MCFree == {<<"Y">>, <<"X", " ", "X">>}
=============================================================================
