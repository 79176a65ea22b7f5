SPECIFICATION Spec
CONSTANTS
  Ladders <- MCLadders
  LadderInfo <- MCLadderInfo
  Teams <- MCTeams
  MembersOf <- MCMembersOf
  Players = {11, 12, 13}
  WindowSizes = {2, 4}
  Neighbours <- MCNeighbours
  Races <- MCRaces
  Seasons = {27, 28, 29}
  Answers <- MCAnswers
  MaxUpdates = 3
INVARIANT TypeOK
INVARIANT InOrderOnce
INVARIANT LaterDataReplaces
INVARIANT RanksCountTheBetter
INVARIANT OneBestRace
INVARIANT StatsCountEveryRank
INVARIANT ShownAtTheirBest
INVARIANT FoundAsByReadingAll
