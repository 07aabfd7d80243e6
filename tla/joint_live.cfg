CONSTANTS
  SockCap = 2
  PipeCap = 1
  MaxWrite = 1
  Statuses = {0}
  ProgramMay = {"leave"}
  EmulatedPselect = TRUE
  StdinKinds = {"tty"}
  MaxTyped = 1
  MaxResize = 0
  MaxTerm = 0
  MayDie = TRUE
SPECIFICATION FairSpec
PROPERTIES
  ProgramEndsSession
  ExecutesRemotely
