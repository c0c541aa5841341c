\* Two overlapping turns assign two people.
SPECIFICATION Spec
CONSTANTS
  AliceJohnson = AliceJohnson
  aliceJohnson = aliceJohnson
  Alice = Alice
  Johnson = Johnson
  BobReed = BobReed
  Bob = Bob
  Reed = Reed
  JordanAvery = JordanAvery
  Jordan = Jordan
  Avery = Avery
  TaylorMorgan = TaylorMorgan
  Taylor = Taylor
  Morgan = Morgan
  Person1 = Person1
  Person2 = Person2
  Card = Card
  Token1 = Token1
  Token2 = Token2
  CreditCard = CreditCard
  Person = Person
  s1 = s1
  aliceText = aliceText
  aliceLower = aliceLower
  bobText = bobText
  cardText = cardText
  mixedText = mixedText
  blankText = blankText
  NoName = NoName
  Corrupt = Corrupt
  t1 = t1
  t2 = t2
  t3 = t3
  Name <- MCName
  Fold <- MCFold
  Fields <- MCFields
  Safe <- MCSafe
  AllowList <- MCAllowList
  Decompose = TRUE
  Kind <- MCKind
  Strategy <- MCStrategy
  Pool <- MCPool
  Numbered <- MCNumbered
  MaxIndex = 2
  Slot <- Colliding
  Session = {s1}
  Turn = {t1, t2}
  SessionOf <- MCSessionOf
  TextsOf <- TwoPeople
  Text <- MCText
  Mentions <- MCMentions
  Substrings <- MCSubstrings
  Blank = {blankText}
  Raw <- MCRaw
  Score = {0, 1, 2}
  Threshold <- MCThreshold
  Entities <- MCKind
  AllowListed = {Johnson, Reed}
  Implausible = {}
  Longer <- MCLonger
  Serial = FALSE
  Faults = {}
  MaxLife = 0
INVARIANTS
  DistinctPseudonyms
