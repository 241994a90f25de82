SPECIFICATION FairSpec
CONSTANTS
  r1 = r1
  r2 = r2
  NoRuntime = NoRuntime
  Runtimes = {r1, r2}
  Display <- OneDisplay
  Faults = {"child", "slow", "crash", "kill", "remove"}
  MaxFaults = 1
  Mixed = FALSE
INVARIANTS
  TypeOK
  EndedLeavesNothing
  UndisturbedStarts
  RunningIsPublished
PROPERTIES
  EveryRuntimeSettles
