SPECIFICATION Spec
CONSTANTS
  t1 = t1 t2 = t2 l1 = l1 l2 = l2 w = w c1 = c1 c2 = c2
  Token = {t1, t2}
  Market <- MCMarket
  Lane = {l1, l2}
  Worker = {w}
  WorkerId <- MCWorkerId
  Content = {c1}
  MaxAttempts = 2
  MaxClaims = 3
  MaxExpiries = 1
  MaxFaults = 1
  None = None
SYMMETRY Lanes
INVARIANTS
  TypeOK
  ReadyIffObject
  NamedObjectsStored
  ClaimsDistinct
  AttemptsBounded
PROPERTIES
  NewestResultWins
  ImplementsRegister
