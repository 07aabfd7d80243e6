CONSTANTS
  SockCap = 1
  PipeCap = 1
  MaxWrite = 0
  Statuses = {0}
  ProgramMay = {"close"}
  EmulatedPselect = FALSE
  StdinKinds = {"fifo"}
  MaxTyped = 0
  MaxResize = 0
  MaxTerm = 0
  MayDie = FALSE
SPECIFICATION Spec
INVARIANTS
  StatusDelivered
