SPECIFICATION FairSpec
CONSTANTS
  p1 = p1
  p2 = p2
  p3 = p3
  None = None
  Procs = {p1, p2}
  Commands <- AllCommands
  Gpu = {p2}
  Faults = {"command", "slow", "kill", "exit", "removal"}
  MaxFaults = 2
PROPERTY EveryCommandEnds
