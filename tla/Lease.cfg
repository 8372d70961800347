\* Acquire, reclaim, renew and release with crashes, reboots and clock steps; and
\* fenced commands and an update sweep against them.
CONSTANTS
  p1 = p1  p2 = p2  p3 = p3  c1 = c1  o1 = o1  a = a  b = b
  Proc = {p1, p2, p3}
  Cmd = {c1}
  Oper = {o1}
  Free = free
  NoHost = nohost
  Host <- MCHost
  HostOf <- MCHostOf
  PidOf <- MCPidOf
  Skew <- MCSkew
  Timeout = 1
  MaxClock = 2
  MaxToken = 3
  MaxBoot = 2
SPECIFICATION CastSpec
INVARIANTS Fencing SpentForGood
PROPERTIES NoLiveSteal SweepSparesNewcomers PromiseSpec
