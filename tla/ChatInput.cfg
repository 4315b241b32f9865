SPECIFICATION Spec
CONSTANTS
  Byte = {"x", "@", "nl", "cr"}
  NL = "nl"
  CR = "cr"
  At = "@"
  MaxLine = 2
  MaxChunk = 3
  MaxInput = 5
CHECK_DEADLOCK FALSE
INVARIANTS SentIsTyped
