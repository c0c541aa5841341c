\* Overlapping calls share lines, entries expire and are evicted; every
\* call ends.
SPECIFICATION FairSpec
CONSTANTS
  c1 = c1
  c2 = c2
  hello = hello
  name = name
  card = card
  spans1 = spans1
  spans2 = spans2
  bad = bad
  NoEntry = NoEntry
  Call = {c1, c2}
  Line = {hello, name, card}
  LinesOf <- TwoCalls
  Answer = {spans1, bad}
  Malformed = {bad}
  Capacity = 2
  TTL = 2
  MaxTime = 2
INVARIANTS
  TypeOK
  CacheConsistent
  OwnAnswers
  NotStale
PROPERTIES
  CallsEnd
