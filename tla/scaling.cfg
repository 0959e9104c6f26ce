CONSTANTS
  Minima <- MCMinima
  Ranges <- MCRanges
  Units <- MCUnits
SPECIFICATION FairSpec
INVARIANTS TypeOK BaseIsLargest IntegerTracksDouble NearestByte EndsNearlyMet
PROPERTY Ends
CHECK_DEADLOCK FALSE
