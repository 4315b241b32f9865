SPECIFICATION FairSpec
CONSTANTS
  a1 = a1  a2 = a2
  NoAddr = NoAddr  NoReply = NoReply  Malformed = Malformed
  Addr <- OneAddr
  Text <- MCText
  Empty = ""
  Bye = "bye"
  Alnum <- MCAlnum
  Stored <- MCStored
  MaxSessions = 1
  MaxAccounts = 1
  InitialFiles <- OneActive
  MaxTries = 1
  Lossy = FALSE
  MaxDups = 0
  MaxStops = 1
CHECK_DEADLOCK FALSE
PROPERTIES StopsOnSignal
