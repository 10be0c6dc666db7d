----------------------------- MODULE FeePolicy -----------------------------
(* The fees a launch may choose: QuoteV2FeePolicy.                         *)
EXTENDS Integers

CONSTANTS
  BPS,                  \* 10000 in the code
  PlatformFee,          \* PLATFORM_SWAP_FEE_BPS, the same for every launch
  MaxSwapFee, MaxReward \* MAX_CREATOR_SWAP_FEE_BPS, MAX_REWARD_FEE_BPS

ASSUME FeePolicyAssumption ==
  /\ BPS \in Nat \ {0} /\ PlatformFee \in Nat
  /\ MaxSwapFee \in Nat /\ MaxReward \in Nat
  /\ PlatformFee + MaxSwapFee + MaxReward < BPS

\* validate; MAX_TOTAL_HOOK_FEE_BPS is the sum of its parts.
FeePolicyHolds(r) ==
  /\ r.swapFee <= MaxSwapFee /\ r.rewardFee <= MaxReward /\ r.lpShare <= BPS
  /\ (r.mode = "STANDARD") = (r.rewardFee = 0)

\* hookFeeBps
HookFee(r) == PlatformFee + r.swapFee + r.rewardFee
=============================================================================
