CONSTANTS
  selInvalidRecID = 5
  NumLogs = 1
  MaxSent = 4
  Allowed = {"crash"}
SPECIFICATION Spec
INVARIANT UniqueSinceClear
