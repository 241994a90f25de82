SPECIFICATION Spec
CONSTANTS
  p1 = p1
  p2 = p2
  p3 = p3
  None = None
  Procs <- MCProcs
  Commands <- Changes
  Gpu = {}
  Faults = {"command", "slow", "kill", "exit", "removal"}
  MaxFaults = 2
SYMMETRY Symmetric
INVARIANTS
  TypeOK
  SequentialIndex
  SequentialClient
PROPERTIES
  UndisturbedSucceeds
  GenerationGrows
  ReadyIsPublished
