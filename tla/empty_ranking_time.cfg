SPECIFICATION Spec
CONSTANTS
  MaxRanking = 2
  MaxSeason = 2
  MaxClock = 3
INVARIANT DataTimeIncreasing
