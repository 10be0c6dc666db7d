SPECIFICATION Spec
CONSTANTS
  Fee = {f1}
  AllowedFee = {f1}
  StableAllowed = TRUE
  Taxes = {0, 1}
  MaxOut = 2
  MaxIn = 2
  MaxBuys = 2
  MaxGifts = 1
INVARIANTS
  HoldingsUntouched
  NativeAccountedFor
CHECK_DEADLOCK FALSE
