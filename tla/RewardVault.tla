---------------------------- MODULE RewardVault ----------------------------
(***************************************************************************)
(* A reward-mode launch token and the vault it tells every balance change. *)
(* Quote coins that reach the vault are spread over the eligible shares of *)
(* that moment by one growing number, the reward per share; a holder is    *)
(* brought up to date when its balance changes or when it claims.          *)
(*                                                                         *)
(* Two vaults share this accounting: one holds quote coins, the other      *)
(* claims on coins kept by the Infinity vault, which it turns into coins   *)
(* in a callback.  custody says which one is deployed; quote[Vault] is     *)
(* what it owns, coins or claims.                                          *)
(*                                                                         *)
(* Calls are transactions: one that reverts leaves nothing behind and is   *)
(* not a step.  The coin transfer of a claim may call back into the token. *)
(***************************************************************************)
EXTENDS Integers, FiniteSetsExt, Accounts

CONSTANTS
  Vault, Hook,        \* the vault and its only notifier of rewards
  Excluded,           \* accounts that never have shares
  People,             \* accounts that act for themselves; the others are contracts
  Payees,             \* bound: whom tokens and proceeds are made out to
  Supply, InitialReceiver,
  MinEligible,        \* minEligibleBalance
  SCALE,              \* ACCUMULATOR_SCALE
  Taxes               \* what a coin transfer may keep back: {0} for a plain coin

ASSUME VaultAssumption ==
  /\ IsFiniteSet(Account)                   \* addresses have 160 bits
  /\ {Vault, Hook, InitialReceiver} \cup Excluded \subseteq Account
  /\ {Vault, Hook} \subseteq Excluded /\ Vault # Hook
  /\ People \subseteq Account \ {Vault, Hook} /\ Payees \subseteq Account
  /\ Supply \in Nat \ {0} /\ MinEligible \in Nat \ {0} /\ SCALE \in Nat \ {0}
  /\ Taxes \subseteq Nat

VARIABLES
  custody,            \* "coins" (RewardVault) or "claims" (InfinityRewardVault)
  token,              \* launch-token balances
  quote,              \* quote balances
  vault

vaultVars == <<custody, token, quote, vault>>

Sum(f) == MapThenSumSet(LAMBDA a : f[a], DOMAIN f)
NoneOf == [a \in Account |-> 0]
Lesser(a, b) == IF a < b THEN a ELSE b

\* ERC20 transfer of a coin that keeps back up to tax of what it moves
Move(balances, from, to, amount, tax) ==
  LET debited == [balances EXCEPT ![from] = @ - amount]
  IN [debited EXCEPT ![to] = @ + amount - Lesser(tax, amount)]

-----------------------------------------------------------------------------
(* Accounting of the vault, as functions of its storage. *)

SharesFor(a, balance) == IF a \in Excluded \/ balance < MinEligible THEN 0 ELSE balance

\* _claimable: whole rewards first, then what the remainders add up to
Claimable(v, a) ==
  LET earned == v.shares[a] * (v.perShare - v.paid[a])
  IN v.accrued[a] + (earned \div SCALE) + ((v.remainder[a] + (earned % SCALE)) \div SCALE)

\* _claimableRemainder
ClaimableRemainder(v, a) ==
  (v.remainder[a] + ((v.shares[a] * (v.perShare - v.paid[a])) % SCALE)) % SCALE

\* Mutant: a checkpoint drops what is less than one coin.
CheckpointRounded(v, a) ==
  [v EXCEPT !.accrued[a] = Claimable(v, a), !.remainder[a] = 0, !.paid[a] = v.perShare]

Checkpoint(v, a) ==
  [v EXCEPT !.accrued[a] = Claimable(v, a),
            !.remainder[a] = ClaimableRemainder(v, a),
            !.paid[a] = v.perShare]

\* Mutant: the shares change without paying what the old ones have earned.
NotifyBalanceUnpaid(v, a, balance) ==
  LET new == SharesFor(a, balance)
  IN [v EXCEPT !.tracked[a] = balance, !.shares[a] = new, !.total = @ + new - v.shares[a]]

\* notifyBalanceChange: by the token, after every change
NotifyBalance(v, a, balance) ==
  LET c == Checkpoint(v, a)
      new == SharesFor(a, balance)
  IN [c EXCEPT !.tracked[a] = balance, !.shares[a] = new, !.total = @ + new - v.shares[a]]

\* _rewardPerShareDelta and the carry it leaves
PerShareDelta(received, carry, total) ==
  LET product == (received * SCALE) % total
      rest == carry % total
      wraps == product >= total - rest
  IN [delta |-> ((received * SCALE) \div total) + (carry \div total) + (IF wraps THEN 1 ELSE 0),
      carry |-> IF wraps THEN product - (total - rest) ELSE product + rest]

\* notifyReward and notifyVaultReward from the balance they read
Distribute(v, balance) ==
  LET received == balance - v.accounted
      d == PerShareDelta(received, v.undistributed, v.total)
  IN [v EXCEPT !.perShare = @ + d.delta, !.undistributed = d.carry,
               !.accounted = balance, !.notified = @ + received]

\* notifyReward accepts a call that only spreads the carry; notifyVaultReward
\* wants the amount the hook names, which is not zero, to have arrived.
MayNotify(v, balance, amount) ==
  /\ balance >= v.accounted /\ v.total > 0
  /\ IF custody = "coins"
       THEN balance > v.accounted \/ v.undistributed > 0
       ELSE amount > 0 /\ balance - v.accounted >= amount

-----------------------------------------------------------------------------
(* The launch token: _update moves the balance, then reports both ends. *)

Transferred(t, from, to, amount) ==
  IF from = to THEN t ELSE [t EXCEPT ![from] = @ - amount, ![to] = @ + amount]

\* Mutant: a transfer reports the receiver only.
NotifiedReceiver(v, t, from, to) == NotifyBalance(v, to, t[to])

Notified(v, t, from, to) ==
  IF from = to THEN NotifyBalance(v, from, t[from])
  ELSE NotifyBalance(NotifyBalance(v, from, t[from]), to, t[to])

\* BalanceCheckpointMismatch
InStep(v, t, from, to) == v.tracked[from] = t[from] /\ v.tracked[to] = t[to]

CanTransfer(v, t, from, to, amount) == amount <= t[from] /\ InStep(v, t, from, to)

Transfer ==
  /\ \E from \in People, to \in Payees : \E amount \in 0..token[from] :
       /\ CanTransfer(vault, token, from, to, amount)
       /\ token' = Transferred(token, from, to, amount)
       /\ vault' = Notified(vault, token', from, to)
  /\ UNCHANGED <<custody, quote>>

-----------------------------------------------------------------------------
(* Rewards arrive and are claimed. *)

\* The hook (external) moves its coins to the vault, or mints claims for them;
\* with from another account it is anybody's donation.
Fund(from) ==
  /\ \E amount \in 1..quote[from], tax \in Taxes :
       quote' = Move(quote, from, Vault, amount, IF custody = "coins" THEN tax ELSE 0)
  /\ UNCHANGED <<custody, token, vault>>

NotifyReward ==
  /\ \E amount \in 0..quote[Vault] : MayNotify(vault, quote[Vault], amount)
  /\ vault' = Distribute(vault, quote[Vault])
  /\ UNCHANGED <<custody, token, quote>>

\* The lock of InfinityRewardVault.claim, NONE before and after every call
Lock(account, amount) == [action |-> "CLAIM", account |-> account, amount |-> amount]

\* lockAcquired, for what the Infinity vault passes to it
LockAcquired(lock, data) ==
  IF lock.action = "CLAIM" /\ data = <<lock.account, lock.amount>>
    THEN [lock EXCEPT !.action = "CLAIM_EXECUTED"]
    ELSE [lock EXCEPT !.action = "revert"]

\* How often the Infinity vault (external) calls back for one lock: the claim
\* goes through only when the lock has run, and each callback takes the coins.
Takings(account, amount) ==
  LET once == LockAcquired(Lock(account, amount), <<account, amount>>)
      twice == LockAcquired(once, <<account, amount>>)
  IN (IF once.action = "revert" THEN {} ELSE {1}) \cup (IF twice.action = "revert" THEN {} ELSE {2})

\* Mutant: a reward may be notified while a claim is being paid.
GuardedIgnored(v, balance) == MayNotify(v, balance, 1)

\* nonReentrant: no second guarded call runs inside the payment of a claim.
Guarded(v, balance) == FALSE

\* What may happen inside the payment: nothing, a transfer of the launch token
\* by whoever got control, or, if it is not guarded, a notification.
Inside(v, q) ==
  {<<v, token>>}
  \cup { LET t == Transferred(token, p[1], p[2], token[p[1]])
         IN <<Notified(v, t, p[1], p[2]), t>> :
         p \in {x \in People \X Payees : InStep(v, token, x[1], x[2])} }
  \cup (IF Guarded(v, q[Vault]) THEN {<<Distribute(v, q[Vault]), token>>} ELSE {})

\* claim: checkpoint, zero, pay, and only then lower accountedQuoteBalance from
\* the value read before the payment.  The vault and the account must have
\* moved by exactly the amount.
Claim ==
  \E a \in People, tax \in Taxes :
    LET c == Checkpoint(vault, a)
        amount == c.accrued[a]
        payments == IF custody = "coins" THEN {1} ELSE Takings(a, amount)
    IN /\ amount > 0 /\ amount <= vault.accounted /\ quote[Vault] >= vault.accounted
       /\ \E n \in payments, after \in Inside([c EXCEPT !.accrued[a] = 0],
                                              Move(quote, Vault, a, amount, tax)) :
            /\ n * amount <= quote[Vault]
            /\ quote' = Move(quote, Vault, a, n * amount, tax)
            /\ quote[Vault] - quote'[Vault] = amount /\ quote'[a] - quote[a] = amount
            /\ token' = after[2]
            /\ vault' = [after[1] EXCEPT !.accounted = vault.accounted - amount,
                                         !.claimed = @ + amount]
       /\ UNCHANGED custody

\* The token's constructor mints the supply, which is its first notification.
VaultInit(endowment) ==
  /\ custody \in {"coins", "claims"}
  /\ quote = endowment
  /\ token = [NoneOf EXCEPT ![InitialReceiver] = Supply]
  /\ vault = NotifyBalance([tracked |-> NoneOf, shares |-> NoneOf, paid |-> NoneOf,
                            remainder |-> NoneOf, accrued |-> NoneOf,
                            total |-> 0, perShare |-> 0, accounted |-> 0, undistributed |-> 0,
                            notified |-> 0, claimed |-> 0],
                           InitialReceiver, Supply)

(******************************** properties ******************************)
\* To the last fraction, the coins the vault accounts for are those holders
\* may claim, the fractions they are owed and the carry; and they are there.
\* No order of transfers, rewards and claims, and nothing that runs inside the
\* payment of a claim, makes one holder's reward another's.
RewardsConserved ==
  /\ quote[Vault] >= vault.accounted
  /\ vault.notified = vault.accounted + vault.claimed
  /\ SCALE * vault.accounted =
       vault.undistributed
       + Sum([a \in Account |-> SCALE * vault.accrued[a] + vault.remainder[a]
                                 + vault.shares[a] * (vault.perShare - vault.paid[a])])

\* The shares are always those of the present balances, though they are only
\* ever changed by differences, and the vault pays no excluded account.
SharesFollowBalances ==
  /\ vault.tracked = token
  /\ vault.shares = [a \in Account |-> SharesFor(a, token[a])]
  /\ vault.total = Sum(vault.shares)
  /\ \A a \in Excluded : Claimable(vault, a) = 0

\* No step takes from a holder what it could claim before, but its own claim.
EarnedStaysEarned ==
  [][\A a \in Account : Claimable(vault, a)' < Claimable(vault, a) =>
        quote'[a] = quote[a] + Claimable(vault, a)]_vaultVars
=============================================================================
