CONSTANTS
  Builds <- MCBuilds
  SelCapacity = 2
  MaxQueue = 2
  AlarmPaths = {"cpu"}
  AlarmEvents = {"CriticalLow", "WarningHigh"}
  HostErrors <- MCHostErrors
  Timers <- MCTimers
SPECIFICATION FairSpec
INVARIANTS TypeOK AlarmTold HostErrorTold WatchdogTold PowerTold
PROPERTIES HostErrorAlternates AlarmLogged
