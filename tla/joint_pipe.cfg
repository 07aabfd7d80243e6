CONSTANTS
  SockCap = 2
  PipeCap = 1
  MaxWrite = 2
  Statuses = {256}
  ProgramMay = {}
  EmulatedPselect = FALSE
  StdinKinds = {"fifo"}
  MaxTyped = 2
  MaxResize = 0
  MaxTerm = 0
  MayDie = FALSE
SPECIFICATION Spec
INVARIANTS
  OutputInOrder
  InputInOrder
  KeptWhileRunning
  StatusLostOnlyIf
