SPECIFICATION Spec
CONSTANTS
  r1 = r1
  r2 = r2
  NoRuntime = NoRuntime
  Runtimes = {r1}
  Display <- OneDisplay
  Faults = {}
  MaxFaults = 0
  Mixed = FALSE
INVARIANT ShutsDownOnSignal
