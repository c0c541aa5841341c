\* A letter directly before a mapped full name: its last name is left in clear.
SPECIFICATION Spec
CONSTANTS
  Lower <- MCLower
  Upper <- MCUpper
  Letter <- MCLetter
  WordChar <- MCLetter
  Apostrophe = {"'"}
  Ending <- MCEnding
  Token = {}
  Prompt <- NamesInWords
  Forward <- MCForward
  Backward <- MCBackward
  Free = {}
  Fallible = FALSE
  MaxLen = 4
INVARIANTS
  NoNameLeft
