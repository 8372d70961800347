\* Local and remote lanes, interrupts allowed.
CONSTANTS
  a1 = a1  a2 = a2  a3 = a3
  Attempt = {a1, a2, a3}
  None = none
  Escalate = TRUE
  MaxMail = 2
SPECIFICATION FairSpec
INVARIANTS WakeInHand InterruptsBounded
PROPERTIES PeriodOwned CuedInTheEnd
