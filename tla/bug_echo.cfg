CONSTANTS
  SockCap = 2
  PipeCap = 1
  MaxWrite = 4
  Statuses = {0}
  ProgramMay = {"close"}
  EmulatedPselect = FALSE
  StdinKinds = {"fifo"}
  MaxTyped = 4
  MaxResize = 0
  MaxTerm = 0
  MayDie = FALSE
SPECIFICATION EchoSpec
INVARIANTS
  NoStandstill
