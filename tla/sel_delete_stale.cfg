CONSTANTS
  selInvalidRecID = 4
  NumLogs = 1
  MaxSent = 3
  Allowed = {"clear"}
SPECIFICATION Spec
INVARIANT UniqueSinceClear
