\* A window of white space only, in the middle of an answer.
SPECIFICATION Spec
CONSTANTS
  thread = thread
  user = user
  call1 = call1
  call2 = call2
  waegAnon = waegAnon
  r1 = r1
  r2 = r2
  NoId = NoId
  Lower <- MCLower
  Upper <- MCUpper
  Letter <- MCLetter
  WordChar <- MCLetter
  Apostrophe = {"'"}
  Ending <- MCEnding
  Token = {}
  Id <- MCId
  Sanitize <- MCSanitize
  Request = {r1}
  Identities <- OneUser
  WaegAnon = waegAnon
  Session <- MCId
  PromptsOf <- Spaced
  Named <- MCNamed
  Pool <- MCPool
  Free = {}
  Streamed = {r1}
  DefaultHold = 1
  Faults = {}
INVARIANTS
  EveryWindowRestored
