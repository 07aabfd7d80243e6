CONSTANTS
  SockCap = 2
  PipeCap = 1
  MaxWrite = 2
  Statuses = {9}
  ProgramMay = {"close", "stop"}
  EmulatedPselect = FALSE
  Requests = {"ForkSocket", "StdIn"}
  Sizes = {100}
  MaxSend = 3
SPECIFICATION Spec
INVARIANTS
  OutputConserved
  StdinConserved
  ReadsWhatIsReady
  DescriptorOnlyIf
  SleepIsClean
  StatusIsLast
  ExitNoticed
