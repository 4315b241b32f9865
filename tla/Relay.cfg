SPECIFICATION Spec
CONSTANTS
  a1 = a1  a2 = a2  a3 = a3
  NoAddr = NoAddr  Silence = Silence
  Addr <- ThreeAddr
  Text <- AllText
  Connect = "CONNECT"
  Exits = {"@"}
  Alnum = {"hi"}
  MaxLines <- OneTypes
  MaxFaults = 1
CHECK_DEADLOCK FALSE
INVARIANTS TypeOK IgnoredKnows LeaksAreLosses
PROPERTIES PairPolicy InputDrains
