CONSTANTS
  selInvalidRecID = 3
  NumLogs = 1
  MaxSent = 2
  Allowed = {"clear"}
SPECIFICATION Spec
INVARIANT UniqueLogged
