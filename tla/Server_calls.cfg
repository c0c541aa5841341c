\* Two calls of a conversation; every service may fail at every step, and the
\* server may stop or crash twice.
SPECIFICATION ServerSpec
CONSTANTS
  AnnReed = AnnReed
  annReed = annReed
  BobLee = BobLee
  JordanAvery = JordanAvery
  TaylorMorgan = TaylorMorgan
  Person1 = Person1
  Person2 = Person2
  Person3 = Person3
  conversation = conversation
  longId = longId
  hashedId = hashedId
  user = user
  r1 = r1
  r2 = r2
  call1 = call1
  call2 = call2
  card = card
  chart = chart
  remote = remote
  blank = blank
  NoName = NoName
  NoId = NoId
  Person = Person
  Name <- MCName
  Fold <- MCFold
  Fields <- MCFields
  Safe = {}
  AllowList = {}
  Decompose = FALSE
  Kind <- MCKind
  Strategy <- MCStrategy
  Pool <- MCPool
  Numbered <- MCNumbered
  MaxIndex = 3
  Slot <- Sequential
  Id <- MCId
  Sanitize <- MCSanitize
  Session <- MCId
  Request = {r1, r2}
  SessionOf <- MCSessionOf
  Image <- MCImage
  ImagesOf <- Images
  Source <- MCSource
  Oversized = {}
  Personal = {card}
  Read <- MCRead
  Entities = {}
  PIIActions = {"redact"}
  MaxImages = 2
  Longer <- MCLonger
  Faults = {"detector", "redactor", "fetch", "store", "caller"}
  Previous <- Turns
  TextsOf <- Texts
  PreIdentity <- WithMetadata
  PostIdentity <- WithMetadata
  Anonymous <- CallId
  PreQuirk = {"none", "unauthorized", "too large", "bad json", "unknown field", "bad type", "documents"}
  PostQuirk = {"none", "unauthorized", "too large", "bad json", "unknown field", "bad type"}
  MaxStops = 2
INVARIANTS
  ServerTypeOK
  OnlyProtectedSent
  AnswerKept
  NamesRestored
PROPERTIES
  StopsGracefully
