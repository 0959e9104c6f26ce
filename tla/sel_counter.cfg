CONSTANTS
  selInvalidRecID = 4
  NumLogs = 2
  MaxSent = 4
  Allowed = {"crash", "rotate", "clear"}
SPECIFICATION Spec
INVARIANTS TypeOK IdsAscend CounterCoversRecords
