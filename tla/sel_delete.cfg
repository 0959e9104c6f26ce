CONSTANTS
  selInvalidRecID = 3
  NumLogs = 2
  MaxSent = 3
  Allowed = {"crash", "rotate", "clear"}
SPECIFICATION Spec
INVARIANTS TypeOK UniqueIds FreeIdsUnheld RestartKeepsPool
PROPERTY PoolSpec
