SPECIFICATION Spec
CONSTANTS
  ann = ann  bob = bob  direct = direct  other = other  v1 = v1  v2 = v2
  t0 = t0  t1 = t1  ref = ref  codeA = codeA  x1 = x1  x2 = x2
  NoAccount = NoAccount  NoVersion = NoVersion  NoAddress = NoAddress
  QuoteToken = QuoteToken
  Account <- MCAccount
  Version <- MCVersion
  Engine = {direct, other}
  Code = {codeA}
  Address <- MCAddress
  RecordId <- MCRecordId
  Request <- MCRequest
  InitialAdmin = ann
  InitialGuardian = bob
  InitialOwner = ann
  InitialSigner = bob
  BPS = 8
  PlatformFee = 1
  MaxSwapFee = 1
  MaxReward = 3
  MaxLaunches = 2
  Reference = {ref}
  Attestation <- MCAttestation
  MaxObservationAge = 1
  MaxTime = 2
  Direct = direct
  DirectVersion = v1
  Token = {t0, t1}
  Token0 = {t0}
  Foreign <- MCForeign
  DustDivisor = 2
  MinTick <- MCMinTick
  MaxTick = 3
  TickSpacing = 2
  MaxCalls = 3
INVARIANTS
  IndexFindsLaunch
  LaunchIsAtomic
  RecordsAgree
  RangesOneSided
PROPERTIES
  LaunchesKept
CHECK_DEADLOCK FALSE
