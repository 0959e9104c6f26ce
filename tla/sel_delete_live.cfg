CONSTANTS
  selInvalidRecID = 3
  NumLogs = 2
  MaxSent = 2
  Allowed = {"crash", "rotate", "clear"}
SPECIFICATION FairSpec
PROPERTY HandlersFinish
