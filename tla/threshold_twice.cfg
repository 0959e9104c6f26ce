CONSTANTS
  Paths = {cpu}
  Events = {CriticalAlarmHigh}
  SelCapacity = 2
  MaxQueue = 1
  Allowed = {"crash"}
SPECIFICATION Spec
INVARIANT NoDuplicateLogs
