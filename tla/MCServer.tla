------------------------------ MODULE MCServer ------------------------------
(***************************************************************************)
(* A conversation of two calls: the first has a text with a name and a     *)
(* business card with another, the second mentions both.                   *)
(***************************************************************************)
EXTENDS Server, TLC

CONSTANTS
  AnnReed, annReed, BobLee,
  JordanAvery, TaylorMorgan, Person1, Person2, Person3,
  conversation, longId, hashedId, user, r1, r2, call1, call2,
  card, chart, remote, blank

MCName == {AnnReed, annReed, BobLee, JordanAvery, TaylorMorgan, Person1, Person2, Person3}
MCFold == [n \in MCName |-> IF n = annReed THEN AnnReed ELSE n]
MCFields == [n \in MCName |-> <<n>>]
MCKind == {Person}
MCStrategy == [k \in MCKind |-> "pool"]
MCPool == [k \in MCKind |-> <<JordanAvery, TaylorMorgan>>]
MCNumbered == [k \in MCKind |-> <<Person1, Person2, Person3>>]
Sequential == [n \in MCName |-> 0]

MCImage == {card, chart, remote, blank}
MCSource == card :> "data" @@ chart :> "data" @@ remote :> "remote" @@ blank :> "none"
MCRead == [i \in MCImage |-> IF i = card THEN {[name |-> BobLee, kind |-> Person]} ELSE {}]
MCLonger == {<<AnnReed, BobLee>>}

Texts == [r \in Request |-> IF r = r1 THEN <<AnnReed, NoName>> ELSE <<BobLee, annReed>>]
Images == [r \in Request |-> IF r = r1 THEN <<card, blank>> ELSE <<remote, chart>>]
Turns == [r \in Request |-> r1]

MCId == {conversation, longId, hashedId, user, call1, call2}
MCSanitize == [i \in MCId |-> IF i = longId THEN hashedId ELSE i]

Identified(metadata, endUser, call) ==
  [metadata |-> metadata, endUser |-> endUser, trace |-> NoId, call |-> call]

CallId == r1 :> call1 @@ r2 :> call2

\* The newest message has the conversation's id, an older one another one.
WithMetadata == [r \in Request |-> Identified(<<user, longId, NoId>>, user, CallId[r])]
MCSessionOf == [r \in Request |-> Derive(PreIdentity[r], CallId[r])]
=============================================================================
