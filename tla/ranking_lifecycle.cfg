SPECIFICATION Spec
CONSTANTS
  MaxRanking = 3
  MaxSeason = 3
  MaxClock = 3
INVARIANT TypeOK
INVARIANT PublicationOrder
INVARIANT OnlyLatestUnfinished
INVARIANT SeasonsInOrder
INVARIANT InOrderOfData
PROPERTY DisplayNeverGoesBack
PROPERTY EventuallyWithinSeason
PROPERTY SeasonIsSwitched
