\* Overlapping requests under each setting of the action; every service may fail.
SPECIFICATION ImageSpec
CONSTANTS
  AnnReed = AnnReed
  annReed = annReed
  Ann = Ann
  Reed = Reed
  BobReed = BobReed
  Bob = Bob
  Acme = Acme
  JordanAvery = JordanAvery
  Jordan = Jordan
  Avery = Avery
  TaylorMorgan = TaylorMorgan
  Taylor = Taylor
  Morgan = Morgan
  Person1 = Person1
  Person2 = Person2
  s1 = s1
  r1 = r1
  r2 = r2
  r3 = r3
  r4 = r4
  r5 = r5
  card = card
  badge = badge
  portrait = portrait
  logo = logo
  chart = chart
  remote = remote
  huge = huge
  broken = broken
  blank = blank
  NoName = NoName
  Name <- MCName
  Fold <- MCFold
  Fields <- MCFields
  Safe <- MCSafe
  AllowList = {Reed}
  Decompose = TRUE
  Kind <- MCKind
  Person = "PERSON"
  Strategy <- MCStrategy
  Pool <- MCPool
  Numbered <- MCNumbered
  MaxIndex = 2
  Slot <- Sequential
  Session = {s1}
  Request = {r1, r2, r3, r4, r5}
  SessionOf <- MCSessionOf
  Image <- MCImage
  ImagesOf <- AllLists
  Source <- MCSource
  Oversized = {huge}
  Personal = {card, badge, portrait, logo}
  Read <- MCRead
  Entities = {"PERSON"}
  PIIActions = {"redact", "block", "passthrough"}
  MaxImages = 4
  Longer <- MCLonger
  Faults = {"redactor", "fetch", "store"}
INVARIANTS
  ImageTypeOK
  ImagesProtected
  ReadNamesMapped
PROPERTIES
  ImagesKeepPromise
