SPECIFICATION SystemSpec
CONSTANTS
  a1 = a1  a2 = a2  a3 = a3
  NoAddr = NoAddr  Nothing = Nothing
  Addr <- ThreeAddr
  Text <- NoInvalid
  Empty = ""
  Connect = "CONNECT"
  Exits = {"@"}
  Alnum = {"hi"}
  Typed <- AllTyped
  MaxLines = 1
  MaxKills = 1
  MaxLosses = 1
  MaxDups = 1
  MaxStops = 0
CHECK_DEADLOCK FALSE
SYMMETRY AddrSymmetry
INVARIANTS ScreenIsCurrent LeaksAreLosses
