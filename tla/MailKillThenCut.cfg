\* A kill inside a claim, a second check, then a power cut; nobody acks.
CONSTANTS
  c1 = c1  c2 = c2
  Msg = {1}
  Kind <- MCGood
  Cmd = {c1}
  Free = free
  MaxSec = 1
  MaxLand <- MCOnce
  Kills = 1
  Cuts = 1
  Errors = 0
SPECIFICATION ChecksOnly
INVARIANTS ShownSurvives
