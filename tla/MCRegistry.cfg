SPECIFICATION FairSpec
CONSTANTS
  p1 = p1
  p2 = p2
  p3 = p3
  NoOne = NoOne
  Processes = {p1, p2, p3}
  Pids = {11, 12}
  MaxProcesses = 2
  MaxOutput = 1
  Writers = {p1}
  MaxWritten = 2
  Faults = {"spawn", "kill"}
CHECK_DEADLOCK FALSE
PROPERTIES
  KillsOnlyItsOwn
  KillReturns
INVARIANTS
  TypeOK
  RunningIsManaged
  RegistryBounded
  EndIsFinal
  TruncationExact
