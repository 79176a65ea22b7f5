SPECIFICATION Spec
CONSTANTS
  EU = EU
  US = US
  gold = gold
  plat = plat
  usGold = usGold
  t1 = t1
  t2 = t2
  NoLadder = NoLadder
  Idle = Idle
  Regions <- MCRegions
  Ladders <- MCLadders
  Teams <- MCTeams
  LadderRegion <- MCLadderRegion
  TeamRegion <- MCTeamRegion
  MaxClock = 4
  MaxRanking = 2
INVARIANT TypeOK
INVARIANT FetchOrder
INVARIANT RanksAreBacked
PROPERTY LaterDataWins
PROPERTY SavedNeverOlder
PROPERTY ImplementsTeamData
