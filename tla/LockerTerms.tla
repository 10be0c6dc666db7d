---------------------------- MODULE LockerTerms ----------------------------
(* What both versions of the position locker are deployed with.            *)
EXTENDS Integers, Accounts

CONSTANTS
  Coin,               \* the two tokens of the pool
  Creator, Treasury,  \* the beneficiaries: launcherFeeReceiver, treasury
  BPS, CreatorFeeBps,
  MaxAmount           \* bound: what one collection or donation brings of a coin

ASSUME LockerAssumption ==
  /\ Creator \in Account /\ Treasury \in Account
  /\ BPS \in Nat \ {0} /\ CreatorFeeBps \in 0..BPS /\ MaxAmount \in Nat

Beneficiary == {Creator, Treasury}
Amounts == [Coin -> 0..MaxAmount]
Zero == [c \in Coin |-> 0]
=============================================================================
