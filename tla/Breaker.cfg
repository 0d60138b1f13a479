SPECIFICATION FairSpec
CONSTANTS
  a1 = a1
  a2 = a2
  a3 = a3
  Attempts = {a1, a2, a3}
  Failures = 2
  Cooldown = 2
  MaxFails = 3
INVARIANT TripsOnConsecutiveFailures
PROPERTY OneCallPerCooldown
PROPERTY NotWedged
