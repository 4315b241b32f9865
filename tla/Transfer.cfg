SPECIFICATION FairSpec
CONSTANTS
  Side <- MCSide
  Zeros = Zeros  None = None
  x = x  dash = dash  NL = NL
  Data <- MCData
  Alnum = {x}
  CHUNK = 2
  MAX_LINE = 3
  Strings <- MCStrings
  Contents <- MCContents
  Names <- MCNames
  First <- MCFirst
  MaxRequests = 2
  MaxFaults = 1
  MaxKills = 1
  MaxChanges = 1
CHECK_DEADLOCK FALSE
INVARIANTS InStep VerdictIsRight SavedIsPrefix NoTempLeft
PROPERTIES Answered
