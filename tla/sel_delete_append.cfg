CONSTANTS
  selInvalidRecID = 4
  NumLogs = 1
  MaxSent = 2
  Allowed = {}
SPECIFICATION Spec
INVARIANT DeleteKeepsOthers
