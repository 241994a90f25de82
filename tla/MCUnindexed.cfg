SPECIFICATION Spec
CONSTANTS
  p1 = p1
  p2 = p2
  p3 = p3
  None = None
  Procs = {p1, p2}
  Commands = {"open"}
  Gpu = {}
  Faults = {}
  MaxFaults = 0
INVARIANT ContainersIndexed
