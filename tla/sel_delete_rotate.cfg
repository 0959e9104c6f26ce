CONSTANTS
  selInvalidRecID = 4
  NumLogs = 2
  MaxSent = 3
  Allowed = {"rotate"}
SPECIFICATION Spec
INVARIANT UniqueSinceClear
