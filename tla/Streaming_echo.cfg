\* Every prompt of up to four characters and longer ones around the full name, every way to cut its answer.
SPECIFICATION Spec
CONSTANTS
  Lower <- MCLower
  Upper <- MCUpper
  Letter <- MCLetter
  WordChar <- MCLetter
  Apostrophe = {"'"}
  Ending <- MCEnding
  Token = {}
  Prompt <- MCPrompt
  Forward <- MCForward
  Backward <- MCBackward
  Free <- MCFree
  Fallible = TRUE
  MaxLen = 4
INVARIANTS
  TypeOK
  EchoRestored
  AnswerRestored
  NamesRewritten
