\* The move of a hub, the keys of one that stays, or its sessions.
SPECIFICATION HubSpec
CONSTANTS
  c1 = c1  c2 = c2
  Join = {j1, j2}
  Holder = {p1}
  Last = j1
  MaxJoin = 1
  MaxUse = 2
  MaxFault = 2
  MaxKey = 3
  Client = {c1, c2}
  Conn = {1, 2, 3}
  Mail = {1, 2}
  Casts <- MCCasts
  MaxId = 5
  None = none
INVARIANTS HubTypeOK MoveSafe ReportsTrue
PROPERTIES KeysSafe HubHeals
CHECK_DEADLOCK FALSE
