\* An ask, its answer and a message to oneself; two messages to one recipient.
CONSTANTS
  ann = ann  bob = bob  s1 = s1  s2 = s2  s3 = s3  k1 = k1
  Agent = {ann, bob}
  Sender = {s1, s2, s3}
  Jobs <- MCJobs
  Keeper = {k1}
  Free = free
  Nobody = nobody
  ReplyIn = 0
  MaxClock = 2
  MaxFaults = 1
SPECIFICATION Spec
INVARIANTS TypeOK SendOrder ReportTrue
PROPERTIES LandsOnRow AskKept
CHECK_DEADLOCK FALSE
