SPECIFICATION Spec
CONSTANTS
  Msisdns = {m1, m2}
  Ids = {1}
  Handlers = {h1, h2}
  MaxCodes = 2
  MaxPairs = 3
  MaxFaults = 1
SYMMETRY Symmetry
INVARIANTS
  SpentCodeIsDead
  
  TokensAreOwn
  CodeIsForItsClient
CHECK_DEADLOCK FALSE
