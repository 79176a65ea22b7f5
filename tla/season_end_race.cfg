SPECIFICATION Spec
CONSTANTS
  MaxRanking = 3
  MaxSeason = 2
  MaxClock = 3
INVARIANT LeftWithinSeason
