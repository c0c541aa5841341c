\* A streamed answer to every short prompt while another request of the user or of a stranger runs.
SPECIFICATION Spec
CONSTANTS
  thread = thread
  user = user
  call1 = call1
  call2 = call2
  waegAnon = waegAnon
  r1 = r1
  r2 = r2
  NoId = NoId
  Lower <- MCLower
  Upper <- MCUpper
  Letter <- MCLetter
  WordChar <- MCLetter
  Apostrophe = {"'"}
  Ending <- MCEnding
  Token = {}
  Id <- MCId
  Sanitize <- MCSanitize
  Request = {r1, r2}
  Identities <- MCIdentities
  WaegAnon = waegAnon
  Session <- MCId
  PromptsOf <- MCPromptsOf
  Named <- MCNamed
  Pool <- MCPool
  Free <- MCFree
  Streamed = {r1}
  DefaultHold = 1
  Faults = {"detector", "store", "refused"}
INVARIANTS
  TypeOK
  WindowsRestored
  PlainAnswerKept
  NoForeignName
