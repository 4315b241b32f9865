SPECIFICATION FairSpec
CONSTANTS
  a1 = a1  a2 = a2  a3 = a3
  NoAddr = NoAddr  Nothing = Nothing
  Addr <- ThreeAddr
  Text <- AllText
  Empty = ""
  Connect = "CONNECT"
  Exits = {"@"}
  Alnum = {"hi"}
  Typed <- OneTalks
  MaxLines = 1
  MaxKills = 0
  MaxLosses = 0
  MaxDups = 0
  MaxStops = 1
CHECK_DEADLOCK FALSE
INVARIANTS TypeOK
PROPERTIES PairPolicy Admitted LeaverNoticed StopsWithTraffic
