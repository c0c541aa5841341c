--------------------------- MODULE MCTextPipeline ---------------------------
(***************************************************************************)
(* A small conversation: two people who may be detected, one of them in   *)
(* two spellings and by first name alone, a card number, a pool of two     *)
(* names, and texts that already contain a pool name or a token.           *)
(***************************************************************************)
EXTENDS TextPipeline, TLC

CONSTANTS
  AliceJohnson, aliceJohnson, Alice, Johnson, BobReed, Bob, Reed,
  JordanAvery, Jordan, Avery, TaylorMorgan, Taylor, Morgan,
  Person1, Person2, Card, Token1, Token2,
  CreditCard,
  t1, t2, t3, s1,
  aliceText, aliceLower, bobText, cardText, mixedText, blankText

MCName ==
  {AliceJohnson, aliceJohnson, Alice, Johnson, BobReed, Bob, Reed,
   JordanAvery, Jordan, Avery, TaylorMorgan, Taylor, Morgan,
   Person1, Person2, Card, Token1, Token2}

MCFold == [n \in MCName |-> IF n = aliceJohnson THEN AliceJohnson ELSE n]

MCFields ==
  (AliceJohnson :> <<Alice, Johnson>> @@ aliceJohnson :> <<Alice, Johnson>> @@
   BobReed :> <<Bob, Reed>> @@ JordanAvery :> <<Jordan, Avery>> @@
   TaylorMorgan :> <<Taylor, Morgan>>) @@ [n \in MCName |-> <<n>>]

\* Reed is also the name of a product.
MCAllowList == {Reed}
MCSafe == {Alice, Johnson, Bob, Reed}

MCKind == {Person, CreditCard}
MCStrategy == Person :> "pool" @@ CreditCard :> "token"
MCPool == Person :> <<JordanAvery, TaylorMorgan>> @@ CreditCard :> << >>
MCNumbered == Person :> <<Person1, Person2>> @@ CreditCard :> <<Token1, Token2>>

\* Sequential assignment, and two reals whose HMAC slots collide.
Sequential == [n \in MCName |-> 0]
Colliding == [n \in MCName |-> 1]

MCText == {aliceText, aliceLower, bobText, cardText, mixedText, blankText}

\* cardText quotes a literal token, bobText a name of the pool.
MCMentions ==
  aliceText :> {AliceJohnson, Alice, Johnson} @@ aliceLower :> {aliceJohnson} @@
  bobText :> {BobReed, JordanAvery} @@ cardText :> {Card, Token1} @@
  mixedText :> {Alice, BobReed} @@ blankText :> {}
MCSubstrings == [x \in MCText |-> {MCFold[n] : n \in MCMentions[x]} \cup MCMentions[x]]

Det(n, k, sc) == [name |-> n, kind |-> k, score |-> sc]

\* The detector finds a name, takes it for something else as well, or misses it.
MCRaw ==
  aliceText :> {{}, {Det(AliceJohnson, Person, 2), Det(AliceJohnson, CreditCard, 1)}} @@
  aliceLower :> {{Det(aliceJohnson, Person, 1)}} @@
  bobText :> {{}, {Det(BobReed, Person, 1), Det(JordanAvery, Person, 0)}} @@
  cardText :> {{Det(Card, CreditCard, 1), Det(Token1, CreditCard, 0)}} @@
  mixedText :> {{Det(Alice, Person, 1), Det(BobReed, Person, 1)}, {Det(BobReed, Person, 1)}} @@
  blankText :> {{}}

MCThreshold == [k \in MCKind |-> 1]

MCOrder ==
  <<AliceJohnson, aliceJohnson, JordanAvery, TaylorMorgan, BobReed, Card,
    Johnson, Alice, Bob, Reed, Jordan, Avery, Taylor, Morgan,
    Person1, Person2, Token1, Token2>>
MCLonger == {<<MCOrder[i], MCOrder[j]>> : i, j \in 1..Len(MCOrder)}
            \cap {p \in MCName \X MCName :
                    (CHOOSE i \in 1..Len(MCOrder) : MCOrder[i] = p[1])
                    < (CHOOSE i \in 1..Len(MCOrder) : MCOrder[i] = p[2])}

MCSessionOf == [t \in Turn |-> s1]

\* The requests of the turns, one set for each question.
TwoTurns == t1 :> <<aliceText, blankText>> @@ t2 :> <<mixedText, cardText>>
ThreeTurns == t1 :> <<aliceText, blankText>> @@ t2 :> <<bobText, mixedText>> @@ t3 :> <<cardText, aliceLower>>
TwoPeople == t1 :> <<aliceText>> @@ t2 :> <<mixedText>>
=============================================================================
