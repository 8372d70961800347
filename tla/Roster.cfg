CONSTANTS
  l1 = l1  l2 = l2  l3 = l3  c1 = c1  c2 = c2
  Agent = {1, 2, 3}
  Lane = {l1, l2, l3}
  Home <- MCHome
  Steady = {l3}
  Cmd = {c1, c2}
  Casts <- MCCasts
  None = none
  StaleAfter = 1
  Tolerance = 1
  LeaseTimeout = 1
  MaxSweepPerPass = 1
  MaxClock = 3
SPECIFICATION LaneSpec
INVARIANTS LaneTypeOK
PROPERTIES RowKept SweptWhole SweptInTheEnd EndOrder LostEnds
CHECK_DEADLOCK FALSE
