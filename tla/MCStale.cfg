SPECIFICATION Spec
CONSTANTS
  c1 = c1
  c2 = c2
  c3 = c3
  c4 = c4
  c5 = c5
  c6 = c6
  NoCall = NoCall
  Calls = {c1, c2}
  Ids <- MCIds
  Request <- MixedWork
  Symbols <- MCSymbols
  Releasable <- MCReleasable
  MaxResults = 2
  MaxHuman = 1
  Impatient = {}
  Faults = {}
INVARIANTS
  StaleWorkRejected
