------------------------------ MODULE Accounts ------------------------------
(* The accounts the contracts know: owners, signers, creators, beneficiaries. *)
CONSTANTS
  Account,    \* addresses of people
  NoAccount   \* address(0)

ASSUME AccountAssumption == NoAccount \notin Account
============================================================================
