\* Two commands at a time on one message, and one command at a time on two, over
\* two turns, a relaunch and every hook contract.
CONSTANTS
  c1 = c1  c2 = c2
  Cmd = {c1, c2}
  Msg = {1, 2}
  MaxSession = 2
  MaxTurn = 2
SPECIFICATION CastSpec
INVARIANTS HoldingLatchedAlone
PROPERTIES LatchReleased RetryProven TurnsEnd
CHECK_DEADLOCK FALSE
