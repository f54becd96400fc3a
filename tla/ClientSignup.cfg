SPECIFICATION FairSpec
CONSTANTS
  Msisdns = {m1, m2}
  Signups = {s1, s2, s3}
  Nobody = Nobody
  MaxSignups = 3
  MaxFailures = 2
INVARIANTS
  OneProfilePerMsisdn
  LocksAreReleased
PROPERTIES
  ImplementsRegistry
  SomebodyGetsThrough
CHECK_DEADLOCK FALSE
