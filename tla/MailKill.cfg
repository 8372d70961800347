\* Two commands race on two messages, one landing twice, processes killed at any step.
CONSTANTS
  c1 = c1  c2 = c2
  Msg = {1, 2}
  Kind <- MCBigFirst
  Cmd = {c1, c2}
  Free = free
  MaxSec = 1
  MaxLand <- MCSecondTwice
  Kills = 1
  Cuts = 0
  Errors = 0
SPECIFICATION Spec
INVARIANTS TypeOK Placed CommittedSeen
PROPERTIES PromiseSpec
