CONSTANTS
  Clients = {c1, c2}
  MaxRefusals = 1
  MayKill = {"babysitter", "master"}
  EmulatedPselect = TRUE
SPECIFICATION FairSpec
INVARIANTS
  TypeOK
  CleanEnd
  DeathsNoticed
  NoSignalSleptOn
  HostTouchedOnlyIf
PROPERTIES
  RivalUntouched
  DeadAreReaped
  ClientAnswered
  StopHeeded
  ServiceKept
