SPECIFICATION FairSpec
CONSTANTS
  t1 = t1 t2 = t2 l1 = l1 l2 = l2 w = w c1 = c1 c2 = c2
  Token = {t1}
  Market <- MCOneToken
  Lane = {l1, l2}
  Worker = {w}
  WorkerId <- MCWorkerId
  Content = {c1}
  MaxAttempts = 2
  MaxClaims = 6
  MaxExpiries = 2
  MaxFaults = 2
  None = None
INVARIANTS
  NamedObjectsStored
PROPERTIES
  NewestResultWins
  ImplementsRegister
  Resolves
