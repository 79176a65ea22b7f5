SPECIFICATION Spec
CONSTANTS
  Rankings <- MCRankings
  Spans <- MCSpans
  Filters <- MCFilters
  ClanTeams <- MCClanTeams
  Lead = 1
INVARIANT TypeOK
INVARIANT PageRanksCountTheBetter
INVARIANT PagesTile
INVARIANT TeamIsOnItsPage
