CONSTANTS
  Accounts <- MCAccounts
  ArgLists <- MCArgLists
  EnvLists <- MCEnvLists
  Strings <- MCStrings
  Strlen <- MCStrlen
  Hyphenated <- MCHyphenated
  LcNames <- MCLcNames
  Numbers = {0, 2, 9, 18}
  Texts = {"rc", "bin/rc"}
  Flags = {"c", "m", "bad", "operand"}
  MaxOptions = 0
  EnvSizes = {0, 1}
  WordSize = 32
  PrefixLength = 2
  TitleLength = 3
  Shells = {"/bin/rc", "bin/rc"}
  FirstKept = 10
  Numbering = {0, 1, 2, 3, 4, 5, 6, 7, 8, 9, 10, 11}
  RequestRoom = 16
  ClientIds = {0, 1, 2, 9}
  Inherited = {5, 11}
SPECIFICATION Spec
INVARIANTS
  EveryArgumentArrives
