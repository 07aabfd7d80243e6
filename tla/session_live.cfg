CONSTANTS
  SockCap = 1
  PipeCap = 1
  MaxWrite = 0
  Statuses = {9}
  ProgramMay = {"close", "leave"}
  EmulatedPselect = FALSE
  Requests = {"ForkTty", "StdIn", "StdOut"}
  Sizes = {100}
  MaxSend = 3
SPECIFICATION FloodSpec
INVARIANTS
  TypeOK
  EndsForCause
PROPERTIES
  HandshakeEnds
  ExitEndsSession
