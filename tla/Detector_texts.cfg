\* Short texts of every kind, lines of up to two windows, overlap just below
\* half a window; one unit per batch, and six configurations of the engines.
SPECIFICATION FairDetectSpec
CONSTANTS
  Input <- MCInput
  MaxChars = 8
  Overlap = 3
  MaxLen = 12
  PERSON = PERSON
  LOCATION = LOCATION
  EMAIL = EMAIL
  full_name = full_name
  first_name = first_name
  city = city
  acme = acme
  acmeltd = acmeltd
  Person = PERSON
  Type = {PERSON, LOCATION, EMAIL}
  Label = {full_name, first_name, city}
  Term <- MCTerm
  Score = {1, 2, 3}
  Config <- MCConfig
  Plain <- MCPlain
  Telling <- MCTelling
  Place <- MCPlace
  TermType <- MCTermType
  Matches <- MCMatches
  Exempt <- MCExempt
  Implausible <- MCImplausible
  BatchSize = 1
  Faults = {"ner", "presidio", "empty body"}
INVARIANTS
  DetectTypeOK
  EverythingSeen
  UnitsFit
  NamesSeenWhole
  FindingsExact
PROPERTIES
  DetectionEnds
