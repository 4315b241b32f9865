SPECIFICATION Spec
CONSTANTS
  MAX_IPS = 1
  Domain <- MCDomain
  QueryId = 4660
  NoReply = NoReply
  Short = Short
  Replies <- MCReplies
  Pages <- MCPages
  None = None
  Key <- MCKey
  FirstCapacity = 1
  MaxFaults = 2
  MaxRuns = 2
CHECK_DEADLOCK FALSE
INVARIANTS TypeOK OutputIsTrue FilterIsObeyed NoLeak SuccessIsWholePage CompletedIsWritten
