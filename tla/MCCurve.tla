------------------------------ MODULE MCCurve ------------------------------
(* One trader who is also the creator, a holder, and the contracts; a plain
   coin, or one that keeps back a unit of a transfer.                      *)
EXTENDS BondingMarket

CONSTANTS ann, bob, factory, marketAddr, vaultAddr, hook

MCAccount == {ann, bob, factory, marketAddr, vaultAddr, hook}
MCExcluded == {vaultAddr, hook, marketAddr, factory}
MCTerms == {[mode |-> "REWARD", swapFee |-> 1, rewardFee |-> 2, lpShare |-> 0],
            [mode |-> "STANDARD", swapFee |-> 1, rewardFee |-> 0, lpShare |-> 2]}
MCEndowment == [NoneOf EXCEPT ![ann] = 7]
=============================================================================
