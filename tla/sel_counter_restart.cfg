CONSTANTS
  selInvalidRecID = 4
  NumLogs = 1
  MaxSent = 2
  Allowed = {"crash"}
SPECIFICATION Spec
INVARIANT UniqueSinceClear
