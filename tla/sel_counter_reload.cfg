CONSTANTS
  selInvalidRecID = 4
  NumLogs = 1
  MaxSent = 2
  Allowed = {"clear"}
SPECIFICATION Spec
PROPERTY FlushedIsLogged
