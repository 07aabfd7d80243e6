CONSTANTS
  SockCap = 1
  PipeCap = 1
  MaxWrite = 0
  Statuses = {9, 256}
  ProgramMay = {}
  EmulatedPselect = TRUE
  StdinKinds = {"tty", "fifo", "other"}
  MaxTyped = 0
  MaxResize = 2
  MaxTerm = 1
  MayDie = TRUE
SPECIFICATION Spec
INVARIANTS
  TerminalRestored
  ResizeNotLost
  LeavesForCause
  ExitCodeTrue
