SPECIFICATION Spec
CONSTANTS
  Granule = 2
  MaxTime = 5
  MaxRanking = 2
PROPERTY PingReloads
