SPECIFICATION Spec
CONSTANTS
  old = old
  new = new
  a = a
  Ladders <- MCLadders
  Teams <- MCTeams
  TeamsOf <- MCTeamsOf
  Active <- MCActive
  Known <- MCKnown
  KeepDays = 2
  RefetchDays = 0
  ClosedDays = 1
  NearStart = 2
  FindDays = 0
  MaxRetries = 1
  MaxDay = 3
INVARIANT TypeOK
INVARIANT RecentRanksHaveRows
PROPERTY RecentRanksAreKept
PROPERTY OverdueIsPurged
PROPERTY LaddersSettle
