--------------------------- MODULE BondingMarket ---------------------------
(***************************************************************************)
(* The curve market of a reward-mode launch.  It holds launch tokens and   *)
(* quote coins and trades along (virtual + quoteReserve) * tokenReserve,   *)
(* every rounding in the pool's favour, until quoteReserve has reached the *)
(* graduation threshold; then the factory takes the reserves out.  Fees    *)
(* are kept aside, in the same balance, until their recipients claim them. *)
(* The reward recipient is the hook of the vault, so a fee of a trade ends *)
(* as a reward of the holders, who are whoever trades moved tokens to.     *)
(*                                                                         *)
(* Each call is one transaction, behind one guard; the minimum a caller    *)
(* names and its deadline can only cancel a call.                          *)
(***************************************************************************)
EXTENDS RewardVault, FeePolicy

CONSTANTS
  Market, Factory,          \* contracts; the factory holds the supply at first
  Platform, Creator,        \* recipients of fees, with Hook for rewards
  Terms,                    \* fee configurations a market may be created with
  Virtual, Threshold,       \* virtualQuoteReserve, graduationQuoteThreshold
  Deposits,                 \* bound: tokens the factory may open the market with
  MaxTrade, MaxCalls,       \* bounds: what one trade pays in; trades and rewards
  Endowment                 \* quote coins per account at first

ASSUME MarketAssumption ==
  /\ {Market, Factory, Platform, Creator} \subseteq Account /\ Factory = InitialReceiver
  /\ Market \notin People \cup {Vault, Hook, Factory, Platform, Creator}
  /\ Virtual \in Nat \ {0} /\ Threshold \in Nat \ {0}
  /\ MaxTrade \in Nat /\ MaxCalls \in Nat
  /\ Endowment \in [Account -> Nat]
  /\ \A t \in Terms : t.swapFee \in Nat /\ t.rewardFee \in Nat /\ FeePolicyHolds(t)

VARIABLES
  terms,        \* the immutable fee configuration
  market,       \* state, reserves, fees
  calls         \* bound: trades and notifications so far

vars == <<custody, token, quote, vault, terms, market, calls>>

CeilDiv(a, b) == (a + b - 1) \div b

-----------------------------------------------------------------------------
(* Quotes and fees. *)

\* _feeAmount: the total rounds up, the recipients' shares down.
FeeAmount(gross) == CeilDiv(gross * HookFee(terms), BPS)
CreatorCut(gross) == (gross * terms.swapFee) \div BPS
RewardCut(gross) == (gross * terms.rewardFee) \div BPS

\* Mutant: the pool rounds in the trader's favour.
ReserveAfterDown(x, y, otherAfter) == (x * y) \div otherAfter

\* The reserve that keeps the product, given the other one after the trade
ReserveAfter(x, y, otherAfter) == CeilDiv(x * y, otherAfter)

Price(m) == Virtual + m.quoteReserve

\* _quoteBuy; out is 0 where the code reverts with InsufficientOutput.
QuoteBuy(m, gross) ==
  LET net == gross - FeeAmount(gross)
      after == ReserveAfter(Price(m), m.tokenReserve, Price(m) + net)
  IN [net |-> net, out |-> IF net > 0 /\ after < m.tokenReserve THEN m.tokenReserve - after ELSE 0,
      tokenReserve |-> after]

\* _quoteSell; gross is 0 where it reverts.
QuoteSell(m, amount) ==
  LET after == ReserveAfter(Price(m), m.tokenReserve, m.tokenReserve + amount)
  IN IF after < Price(m) /\ Price(m) - after <= m.quoteReserve
       THEN Price(m) - after ELSE 0

\* Mutant: every recipient's share is rounded up, the platform's too.
AccrueFeesEach(m, gross) ==
  LET platform == CeilDiv(gross * PlatformFee, BPS)
  IN [m EXCEPT !.claimable = [a \in Account |->
        @[a] + (IF a = Platform THEN platform ELSE 0)
             + (IF a = Creator THEN CeilDiv(gross * terms.swapFee, BPS) ELSE 0)
             + (IF a = Hook THEN CeilDiv(gross * terms.rewardFee, BPS) ELSE 0)],
      !.feeReserve = @ + FeeAmount(gross)]

\* _accrueFees: the platform gets what the other shares leave of the fee.
AccrueFees(m, gross) ==
  LET platform == FeeAmount(gross) - CreatorCut(gross) - RewardCut(gross)
  IN [m EXCEPT !.claimable = [a \in Account |->
        @[a] + (IF a = Platform THEN platform ELSE 0)
             + (IF a = Creator THEN CreatorCut(gross) ELSE 0)
             + (IF a = Hook THEN RewardCut(gross) ELSE 0)],
      !.feeReserve = @ + FeeAmount(gross)]

\* Mutant: the accounted balance forgets the fees.
AccountedReserveOnly(m) == m.quoteReserve

\* _accountedQuoteBalance
Accounted(m) == m.quoteReserve + m.feeReserve

-----------------------------------------------------------------------------
(* Moving the launch token: the vault hears of it. *)

Pays(from, to, amount) ==
  /\ CanTransfer(vault, token, from, to, amount)
  /\ token' = Transferred(token, from, to, amount)
  /\ vault' = Notified(vault, token', from, to)

Counted == calls < MaxCalls /\ calls' = calls + 1

\* initialize, by the factory, with tokens it holds
Initialize ==
  /\ market.state = "Uninitialized"
  /\ \E amount \in Deposits \cap 1..token[Factory] :
       /\ Pays(Factory, Market, amount)
       /\ market' = [market EXCEPT !.state = "Trading", !.tokenReserve = amount]
  /\ UNCHANGED <<custody, quote, terms, calls>>

\* Mutant: a market that is ready to graduate still trades.
TradingOrReady(m) == m.state \in {"Trading", "GraduationReady"}

\* _ensureTrading
EnsureTrading(m) == m.state = "Trading"

\* _executeBuy, for coins that have already arrived
ExecuteBuy(beneficiary, gross, coins) ==
  LET q == QuoteBuy(market, gross)
      m == AccrueFees([market EXCEPT !.quoteReserve = @ + q.net,
                                     !.tokenReserve = q.tokenReserve], gross)
  IN /\ q.out > 0 /\ beneficiary # Market
     /\ Pays(Market, beneficiary, q.out)
     /\ token'[Market] >= m.tokenReserve /\ coins[Market] >= Accounted(m)
     /\ market' = [m EXCEPT !.state = IF m.quoteReserve >= Threshold
                                        THEN "GraduationReady" ELSE @]

\* buy: what counts is what arrived, of a coin that may keep something back.
Buy(buyer) ==
  /\ EnsureTrading(market)
  /\ \E paid \in 1..Lesser(MaxTrade, quote[buyer]), tax \in Taxes, beneficiary \in Payees :
       LET received == paid - Lesser(tax, paid)
       IN /\ received > 0
          /\ quote' = Move(quote, buyer, Market, paid, tax)
          /\ ExecuteBuy(beneficiary, received, quote')
  /\ Counted /\ UNCHANGED <<custody, terms>>

\* prepaidBuy: the factory spends whatever the market holds unaccounted for.
PrepaidBuy ==
  /\ EnsureTrading(market)
  /\ quote[Market] > Accounted(market)
  /\ \E beneficiary \in Payees :
       ExecuteBuy(beneficiary, quote[Market] - Accounted(market), quote)
  /\ Counted /\ UNCHANGED <<custody, terms, quote>>

\* sell
Sell(seller) ==
  /\ EnsureTrading(market)
  /\ \E amount \in 1..token[seller], tax \in Taxes, beneficiary \in Payees \ {Market} :
       LET gross == QuoteSell(market, amount)
           net == gross - FeeAmount(gross)
           m == AccrueFees([market EXCEPT !.quoteReserve = @ - gross,
                                          !.tokenReserve = @ + amount], gross)
       IN /\ gross > 0 /\ net > 0
          /\ Pays(seller, Market, amount)
          /\ net <= quote[Market]
          /\ quote' = Move(quote, Market, beneficiary, net, tax)
          /\ quote'[Market] >= Accounted(m)
          /\ market' = m
  /\ Counted /\ UNCHANGED <<custody, terms>>

\* markGraduated
MarkGraduated ==
  /\ market.state = "GraduationReady" /\ market.quoteReserve >= Threshold
  /\ market' = [market EXCEPT !.state = "Graduated"]
  /\ UNCHANGED <<custody, token, quote, vault, terms, calls>>

\* takeGraduationReserves, to receivers the factory names; here to itself.
TakeGraduationReserves ==
  /\ market.state = "Graduated" /\ ~market.taken /\ market.quoteReserve >= Threshold
  /\ quote[Market] >= Accounted(market) /\ token[Market] >= market.tokenReserve
  /\ Pays(Market, Factory, market.tokenReserve)
  /\ \E tax \in Taxes : quote' = Move(quote, Market, Factory, market.quoteReserve, tax)
  /\ market' = [market EXCEPT !.quoteReserve = 0, !.tokenReserve = 0, !.taken = TRUE]
  /\ UNCHANGED <<custody, terms, calls>>

\* claimFees; the market must lose exactly what it pays.
ClaimFees(a) ==
  LET amount == market.claimable[a] IN
  /\ amount > 0 /\ amount <= quote[Market]
  /\ market' = [market EXCEPT !.claimable[a] = 0, !.feeReserve = @ - amount]
  /\ \E tax \in Taxes : quote' = Move(quote, Market, a, amount, tax)
  /\ quote'[Market] >= Accounted(market')
  /\ UNCHANGED <<custody, token, vault, terms, calls>>

\* Anyone may send quote coins to the market; the next prepaid buy spends them.
Donate(a) ==
  /\ \E amount \in 1..Lesser(MaxTrade, quote[a]) : quote' = Move(quote, a, Market, amount, 0)
  /\ Counted /\ UNCHANGED <<custody, token, vault, terms, market>>

RewardStep ==
  \/ Fund(Hook) /\ UNCHANGED <<terms, market, calls>>
  \/ \E a \in People : Fund(a) /\ Counted /\ UNCHANGED <<terms, market>>
  \/ NotifyReward /\ Counted /\ UNCHANGED <<terms, market>>
  \/ Claim /\ UNCHANGED <<terms, market, calls>>
  \/ Transfer /\ Counted /\ UNCHANGED <<terms, market>>

Init ==
  /\ terms \in Terms
  /\ VaultInit(Endowment)
  /\ market = [state |-> "Uninitialized", quoteReserve |-> 0, tokenReserve |-> 0,
               feeReserve |-> 0, taken |-> FALSE, claimable |-> NoneOf]
  /\ calls = 0

Next ==
  \/ Initialize
  \/ \E a \in People : Buy(a) \/ Sell(a) \/ Donate(a)
  \/ \E a \in People \cup {Hook} : ClaimFees(a)
  \/ PrepaidBuy
  \/ MarkGraduated \/ TakeGraduationReserves
  \/ RewardStep

Spec == Init /\ [][Next]_vars

(******************************** properties ******************************)
\* The market can always pay out its reserves and every fee it owes: neither
\* rounding, nor coins that keep something back, nor the order of trades and
\* claims makes it owe what it does not hold.
MarketBacked ==
  /\ quote[Market] >= market.quoteReserve + market.feeReserve
  /\ token[Market] >= market.tokenReserve
  /\ market.feeReserve = Sum(market.claimable)

\* While the market trades the product of its reserves never falls, so no round
\* trip of buys and sells, however split, takes out more than it put in.
ProductNeverFalls ==
  [][market.state = "Trading" =>
       Price(market)' * market'.tokenReserve >= Price(market) * market.tokenReserve]_vars

\* A market that is ready to graduate holds the quote it was asked for until
\* the factory takes it, and after that it never trades again.
GraduationFunded ==
  /\ market.state \in {"GraduationReady", "Graduated"} /\ ~market.taken =>
       market.quoteReserve >= Threshold
  /\ market.state = "Trading" => market.quoteReserve < Threshold
  /\ market.taken => market.state = "Graduated" /\ Accounted(market) = market.feeReserve
=============================================================================
