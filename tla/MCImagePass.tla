---------------------------- MODULE MCImagePass ----------------------------
(***************************************************************************)
(* Overlapping requests of one session with a business card, a portrait with the    *)
(* same person's name on it, a chart without personal data, images that     *)
(* cannot be had and an empty entry.                                        *)
(***************************************************************************)
EXTENDS ImagePass, TLC

CONSTANTS
  AnnReed, annReed, Ann, Reed, BobReed, Bob, Acme,
  JordanAvery, Jordan, Avery, TaylorMorgan, Taylor, Morgan, Person1, Person2,
  s1, r1, r2, r3, r4, r5,
  card, badge, portrait, logo, chart, remote, huge, broken, blank

MCName == {AnnReed, annReed, Ann, Reed, BobReed, Bob, Acme,
           JordanAvery, Jordan, Avery, TaylorMorgan, Taylor, Morgan, Person1, Person2}
MCFold == [n \in MCName |-> IF n = annReed THEN AnnReed ELSE n]
MCFields ==
  (AnnReed :> <<Ann, Reed>> @@ annReed :> <<Ann, Reed>> @@ BobReed :> <<Bob, Reed>> @@
   JordanAvery :> <<Jordan, Avery>> @@ TaylorMorgan :> <<Taylor, Morgan>>)
    @@ [n \in MCName |-> <<n>>]
MCSafe == {Ann, Reed, Bob}

Org == "ORGANIZATION"
MCKind == {"PERSON", Org}
MCStrategy == [k \in MCKind |-> "pool"]
MCPool == "PERSON" :> <<JordanAvery, TaylorMorgan>> @@ Org :> << >>
MCNumbered == "PERSON" :> <<Person1, Person2>> @@ Org :> <<Person1, Person2>>
Sequential == [n \in MCName |-> 0]

MCImage == {card, badge, portrait, logo, chart, remote, huge, broken, blank}
MCSource ==
  [i \in MCImage |-> CASE i \in {remote, portrait} -> "remote" [] i = broken -> "malformed"
                       [] i = blank -> "none" [] OTHER -> "data"]
MCRead ==
  card :> {[name |-> AnnReed, kind |-> "PERSON"], [name |-> Acme, kind |-> Org]}
    @@ badge :> {[name |-> annReed, kind |-> "PERSON"], [name |-> BobReed, kind |-> "PERSON"]}
    @@ logo :> {[name |-> Acme, kind |-> Org]}
    @@ [i \in MCImage |-> {}]

MCOrder == <<AnnReed, annReed, BobReed, Acme, Ann, Reed, Bob>>
MCLonger == {<<MCOrder[p[1]], MCOrder[p[2]]>> :
               p \in {q \in (1..Len(MCOrder)) \X (1..Len(MCOrder)) : q[1] < q[2]}}

MCSessionOf == [r \in Request |-> s1]
\* The last request has more images than are allowed.
AllLists ==
  r1 :> <<card, blank, portrait, chart>> @@ r2 :> <<badge, remote, card>>
    @@ r3 :> <<logo, broken>> @@ r4 :> <<huge>> @@ r5 :> <<chart, chart, chart, chart, chart>>
=============================================================================
