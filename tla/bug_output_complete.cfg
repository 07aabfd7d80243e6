CONSTANTS
  SockCap = 1
  PipeCap = 1
  MaxWrite = 1
  Statuses = {0}
  ProgramMay = {}
  EmulatedPselect = FALSE
  StdinKinds = {"fifo"}
  MaxTyped = 0
  MaxResize = 0
  MaxTerm = 0
  MayDie = FALSE
SPECIFICATION Spec
INVARIANTS
  OutputComplete
