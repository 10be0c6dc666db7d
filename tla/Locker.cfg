SPECIFICATION Spec
CONSTANTS
  NoAccount = NoAccount
  Account = {ann, bob}
  Coin = {c0, c1}
  Creator = ann
  Treasury = bob
  BPS = 5
  CreatorFeeBps = 3
  MaxAmount = 3
  ExpectedId = p1
  Position = {p1, p2}
  MaxTotal = 5
INVARIANTS
  ClaimsCovered
PROPERTIES
  SplitsLikeV1
