\* One lane with protocol violations, a power cut and an I/O error.
CONSTANTS
  c1 = c1  c2 = c2
  Msg = {1, 2, 3}
  Kind <- MCMixed
  Cmd = {c1}
  Free = free
  MaxSec = 1
  MaxLand <- MCSecondTwice
  Kills = 0
  Cuts = 1
  Errors = 1
SPECIFICATION FairSpec
PROPERTIES Durable Progress
