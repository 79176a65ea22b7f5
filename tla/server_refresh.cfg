SPECIFICATION Spec
CONSTANTS
  Granule = 2
  MaxTime = 5
  MaxRanking = 2
INVARIANT TypeOK
INVARIANT ShownIsFresh
INVARIANT ShownIsUsable
PROPERTY SavesAreShown
