----------------------------- MODULE NativeBuy -----------------------------
(***************************************************************************)
(* Buying a launched token with native coins, in one transaction: wrap,    *)
(* swap to the quote coin unless it is wrapped native itself, buy, send    *)
(* back what was not spent.  Two coordinators do it: DirectV3NativeBuy     *)
(* calls the router, NativeDevBuy the adapters.                            *)
(*                                                                         *)
(* Sending native coins calls the buyer, who may send coins to the         *)
(* coordinator before its next step, or refuse, which reverts the          *)
(* transaction.  tx is the call in progress; a revert restores bal.        *)
(***************************************************************************)
EXTENDS SwapAdapters

CONSTANTS
  MaxIn, MaxBuys, MaxGifts   \* bounds: native coins of a call, calls, gifts

ASSUME BuyAssumption == MaxIn \in Nat /\ MaxBuys \in Nat /\ MaxGifts \in Nat

VARIABLES
  coordinator,   \* "direct" (DirectV3NativeBuy) or "adapters" (NativeDevBuy)
  tx, buys, gifts,
  before,        \* history: balances when the last call began, gifts added
  traded         \* history: coins of the last call that went through

vars == <<bal, approved, pools, routes, launchPools, coordinator, tx, buys, gifts, before,
          traded>>

Idle == [phase |-> "idle"]
InCall == tx.phase # "idle"

Init ==
  /\ coordinator \in {"direct", "adapters"}
  /\ AdaptersInit([h \in Holder |-> [c \in Coin |->
       CASE h = "router" /\ c \in {"quote", "token"} -> 2 * MaxOut
         [] h = "caller" /\ c = "native" -> MaxIn * MaxBuys
         [] h = "buyer" /\ c \in {"wbnb", "quote"} -> MaxGifts
         [] OTHER -> 0]])
  /\ tx = Idle /\ buys = 0 /\ gifts = 0 /\ before = bal /\ traded = {}

Mine == bal["coordinator"]
Base(c) == tx.base[c]

\* The quote coin of the launch
Quote == IF tx.wrapped THEN "wbnb" ELSE "quote"

\* Somebody sends coins to one of the contracts, between calls.
Gift ==
  /\ ~InCall /\ gifts < MaxGifts
  /\ \E h \in Ours, c \in {"wbnb", "quote"} :
       /\ bal["buyer"][c] > 0
       /\ bal' = Give(bal, "buyer", h, c, 1, 0)
       /\ before' = Give(before, "buyer", h, c, 1, 0)
  /\ gifts' = gifts + 1
  /\ UNCHANGED <<approved, pools, routes, launchPools, coordinator, tx, buys, traded>>

\* The swap of a coordinator, through the router or the adapters
QuoteSwaps(b, a, amount, min) ==
  IF coordinator = "adapters" THEN SwapWbnbForQuote(b, a, amount, min)
  ELSE IF \E f \in Fee : <<"wbnb-quote", f>> \in pools
    THEN { [s EXCEPT !.approved = ClearApproval(@, "coordinator", "wbnb")] :
           s \in RouterSwaps(b, a, "coordinator", "wbnb", "coordinator", "quote", min) }
    ELSE {}

\* DirectV3NativeBuy pays the buyer, the adapters pay the coordinator.
TokenSwaps(b, a, quote, amount, min) ==
  IF coordinator = "adapters" THEN BuyWithQuote(b, a, quote, amount, min)
  ELSE IF \E f \in Fee : <<"quote-token", f>> \in pools
    THEN { [s EXCEPT !.approved = ClearApproval(@, "coordinator", quote)] :
           s \in RouterSwaps(b, a, "coordinator", quote, "buyer", "token", min) }
    ELSE {}

\* buy up to the swap for quote coins: validate, note the balances, wrap.
Buy ==
  /\ ~InCall /\ buys < MaxBuys /\ buys' = buys + 1
  /\ \E amount \in 1..Less(MaxIn, bal["caller"]["native"]), wrapped \in BOOLEAN,
        minQuote, minToken \in 1..MaxOut :
       LET deposited == [bal EXCEPT !["caller"]["native"] = @ - amount,
                                    !["coordinator"]["wbnb"] = @ + amount]
           call(phase, out) ==
             [phase |-> phase, wrapped |-> wrapped, minToken |-> minToken,
              base |-> Mine, quoteOut |-> out, saved |-> bal]
       IN \/ /\ wrapped /\ amount >= minQuote
             /\ bal' = deposited /\ tx' = call("buying", amount) /\ UNCHANGED approved
          \/ /\ ~wrapped
             /\ \E s \in QuoteSwaps(deposited, Approve(approved, "coordinator", "wbnb", amount),
                                    amount, minQuote) :
                  LET out == s.bal["coordinator"]["quote"] - Mine["quote"]
                      unspent == s.bal["coordinator"]["wbnb"] - Mine["wbnb"]
                  IN /\ out >= minQuote
                     /\ bal' = s.bal /\ approved' = s.approved
                     /\ tx' = call(IF unspent > 0 THEN "refunding" ELSE "buying", out)
  /\ before' = bal
  /\ UNCHANGED <<pools, routes, launchPools, coordinator, gifts, traded>>

\* What the coordinator has of a coin beyond what it had before the call
Unspent(b, c) == b["coordinator"][c] - Base(c)

\* _refundWbnb, _refundWbnbAsNative: unwrap and send.  The buyer is called and
\* may send coins to the coordinator, which are its own from then on.
Refund(c) ==
  LET n == Unspent(bal, c)
      refunded == [bal EXCEPT !["coordinator"][c] = @ - n, !["buyer"]["native"] = @ + n]
  IN \/ bal' = refunded /\ UNCHANGED gifts
     \/ /\ gifts < MaxGifts /\ gifts' = gifts + 1
        /\ \E g \in {"wbnb", "quote"} :
             bal["buyer"][g] > 0 /\ bal' = Give(refunded, "buyer", "coordinator", g, 1, 0)

RefundUnspent ==
  /\ tx.phase = "refunding"
  /\ Refund("wbnb")
  /\ tx' = [tx EXCEPT !.phase = "buying"]
  /\ UNCHANGED <<approved, pools, routes, launchPools, coordinator, buys, before, traded>>

\* Quote coins to send back: all beyond the balance before the call
QuoteDust(b) == IF b["coordinator"][Quote] > Base(Quote)
                  THEN b["coordinator"][Quote] - Base(Quote) ELSE 0

\* The purchase itself, the tokens for the buyer, and the quote dust.
BuyTokens ==
  /\ tx.phase = "buying"
  /\ coordinator = "adapters" => Mine[Quote] >= Base(Quote) + tx.quoteOut
  /\ \E s \in TokenSwaps(bal, Approve(approved, "coordinator", Quote, tx.quoteOut),
                         Quote, tx.quoteOut, tx.minToken), tax \in Taxes :
       LET tokens == s.bal["coordinator"]["token"] - Mine["token"]
           held == Give(s.bal, "coordinator", "buyer", "token", tokens, 0)
           dust == QuoteDust(held)
       IN /\ held["buyer"]["token"] - bal["buyer"]["token"] >= tx.minToken
          /\ s.bal["coordinator"][Quote] <= Mine[Quote]
          /\ approved' = s.approved
          /\ IF Quote = "wbnb" /\ dust > 0
               THEN bal' = held /\ tx' = [tx EXCEPT !.phase = "returning"]
               ELSE /\ bal' = Give(held, "coordinator", "buyer", Quote, dust, tax)
                    /\ tx' = [tx EXCEPT !.phase = "settling"]
  /\ UNCHANGED <<pools, routes, launchPools, coordinator, buys, gifts, before, traded>>

ReturnDust ==
  /\ tx.phase = "returning"
  /\ Refund(Quote)
  /\ tx' = [tx EXCEPT !.phase = "settling"]
  /\ UNCHANGED <<approved, pools, routes, launchPools, coordinator, buys, before, traded>>

\* Mutant: the direct coordinator does not check what it is left with.
ResidualIgnored == TRUE

\* _requireBalance of every coin, by the direct coordinator only
NoResidual == coordinator = "direct" => \A c \in {"native", "wbnb", Quote} : Mine[c] = Base(c)

Settle ==
  /\ tx.phase = "settling" /\ NoResidual
  /\ tx' = Idle /\ traded' = {"native", "wbnb", Quote}
  /\ UNCHANGED <<bal, approved, pools, routes, launchPools, coordinator, buys, gifts, before>>

\* Any failure: slippage, a pool that does not pay, a buyer that refuses.
Revert ==
  /\ InCall
  /\ bal' = tx.saved /\ approved' = [h \in Ours |-> [c \in Coin |-> 0]] /\ tx' = Idle
  /\ traded' = {"native", "wbnb", "quote", "token"}
  /\ UNCHANGED <<pools, routes, launchPools, coordinator, buys, gifts, before>>

Setup ==
  /\ ~InCall /\ (CreatePool \/ RegisterQuoteRoute \/ RegisterLaunchPool)
  /\ UNCHANGED <<coordinator, tx, buys, gifts, before, traded>>

Next == Gift \/ Setup \/ Buy \/ RefundUnspent \/ BuyTokens \/ ReturnDust \/ Settle \/ Revert

Spec == Init /\ [][Next]_vars

(******************************** properties ******************************)
\* Coins a contract was sent by mistake, or that a call left, never pay for
\* somebody's purchase: whatever swaps fill only in part and whatever the buyer
\* does when it is paid, no contract ends a call with less than it began with,
\* and the adapters, and the direct coordinator for the coins of the call, end
\* it with exactly as much.
HoldingsUntouched ==
  ~InCall =>
    /\ \A h \in Ours, c \in Coin : bal[h][c] >= before[h][c]
    /\ \A h \in {"quoteAdapter", "poolAdapter"} : bal[h] = before[h]
    /\ coordinator = "direct" =>
         \A c \in traded : bal["coordinator"][c] = before["coordinator"][c]

\* Native coins with those who may end up with them: the caller that pays, the
\* buyer that is refunded, the router that sells for them
NativeOf(b) == b["caller"]["native"] + b["buyer"]["native"] + b["router"]["wbnb"]

\* Between calls none of the native coins that were sent has stayed with one of
\* our contracts, wrapped or not, whatever a swap leaves unspent: what the caller
\* paid was sold to the router or sent back.  And no approval is left that could
\* move coins later.
NativeAccountedFor ==
  ~InCall => /\ NativeOf(bal) = NativeOf(before)
             /\ \A h \in Ours, c \in Coin : approved[h][c] = 0
=============================================================================
