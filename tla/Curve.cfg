SPECIFICATION Spec
CONSTANTS
  ann = ann  bob = bob  factory = factory  marketAddr = marketAddr
  vaultAddr = vaultAddr  hook = hook
  NoAccount = NoAccount
  Account <- MCAccount
  Excluded <- MCExcluded
  People = {ann, bob}
  Payees = {ann, bob, hook}
  Vault = vaultAddr
  Hook = hook
  Market = marketAddr
  Factory = factory
  InitialReceiver = factory
  Platform = bob
  Creator = ann
  Supply = 6
  MinEligible = 2
  SCALE = 4
  Taxes = {0, 1}
  Terms <- MCTerms
  Virtual = 1
  Threshold = 4
  Deposits = {5}
  MaxTrade = 4
  MaxCalls = 4
  Endowment <- MCEndowment
  BPS = 8
  PlatformFee = 1
  MaxSwapFee = 1
  MaxReward = 3
INVARIANTS
  MarketBacked
  GraduationFunded
  RewardsConserved
  SharesFollowBalances
PROPERTIES
  ProductNeverFalls
  EarnedStaysEarned
CHECK_DEADLOCK FALSE
