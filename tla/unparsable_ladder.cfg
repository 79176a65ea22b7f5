SPECIFICATION Spec
CONSTANTS
  gm = gm
  plat = plat
  rest1 = rest1
  rest2 = rest2
  NoLadder = NoLadder
  Ladders <- MCLadders
  KindOf <- MCKindOf
  QueueLimit = 1
  DelayMax = 4
  MaxQueued = 2
CHECK_DEADLOCK FALSE
PROPERTY UnparsableIsDropped
