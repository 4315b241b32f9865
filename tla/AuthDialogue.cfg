SPECIFICATION SystemSpec
CONSTANTS
  a1 = a1  a2 = a2
  NoAddr = NoAddr  NoReply = NoReply  Malformed = Malformed
  Addr <- TwoAddr
  Text <- MCText
  Empty = ""
  Bye = "bye"
  Alnum <- MCAlnum
  Stored <- MCStored
  MaxSessions = 1
  MaxAccounts = 1
  InitialFiles <- OneActive
  MaxTries = 1
  Lossy = TRUE
  MaxDups = 1
  MaxStops = 0
CHECK_DEADLOCK FALSE
INVARIANTS InStep CleanExit FailuresWereEntered
