SPECIFICATION ServerSpec
CONSTANTS
  a1 = a1  a2 = a2  a3 = a3
  NoAddr = NoAddr  NoReply = NoReply  Malformed = Malformed
  Addr <- ThreeAddr
  Text <- AccountText
  Empty = ""
  Bye = "bye"
  Alnum <- MCAlnum
  Stored <- MCStored
  MaxSessions = 2
  MaxAccounts = 2
  InitialFiles <- AccountFiles
SYMMETRY Symmetry
INVARIANTS TypeOK LockoutThreshold SessionsAreSound FileAgrees
PROPERTIES LinesEndure LockoutPolicy
