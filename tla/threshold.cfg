CONSTANTS
  Paths = {cpu}
  Events = {CriticalAlarmHigh, WarningAlarmHigh}
  SelCapacity = 3
  MaxQueue = 2
  Allowed = {"crash", "clear", "add", "delete"}
SPECIFICATION FairSpec
INVARIANTS TypeOK SelTellsCondition
PROPERTIES Alternates AlarmLogged
