--------------------------- MODULE SwapAdapters ---------------------------
(***************************************************************************)
(* The Pancake V3 adapters: which routes and pools a coordinator may trade *)
(* through, and the swaps.  A swap pulls coins from the coordinator, lets  *)
(* the router take them, and passes on what came out; it reverts unless    *)
(* the adapter is left with exactly what it had.                           *)
(*                                                                         *)
(* The router and its pools are external: a swap takes up to the amount it *)
(* was given (a price limit may stop it early) and pays anything at or     *)
(* above the minimum; a quote coin may keep something back of a transfer.  *)
(***************************************************************************)
EXTENDS Integers

CONSTANTS
  Fee, AllowedFee,    \* fee tiers, and those the adapters allow
  StableAllowed,      \* BOOLEAN: the stable coin is an allowed reference
  Taxes,              \* what a transfer of the quote coin may keep back
  MaxOut              \* bound: what one swap pays

ASSUME AdapterAssumption ==
  /\ AllowedFee \subseteq Fee /\ StableAllowed \in BOOLEAN
  /\ Taxes \subseteq Nat /\ MaxOut \in Nat

Coin == {"native", "wbnb", "quote", "token", "stable"}
Ours == {"coordinator", "quoteAdapter", "poolAdapter"}
Holder == Ours \cup {"caller", "buyer", "router"}
Pairs == {"wbnb-quote", "wbnb-stable", "stable-quote", "quote-token"}
Routes == [viaStable : BOOLEAN, first : Fee, second : Fee]

VARIABLES
  bal,          \* per holder and coin
  approved,     \* per contract of ours and coin: what its spender may still take
  pools,        \* pools of the Pancake factory: pair and fee
  routes,       \* quoteRoutes that are enabled
  launchPools   \* fees of the launch pools that are enabled

adapterVars == <<bal, approved, pools, routes, launchPools>>

AdaptersInit(endowment) ==
  /\ bal = endowment
  /\ approved = [h \in Ours |-> [c \in Coin |-> 0]]
  /\ pools = {} /\ routes = {} /\ launchPools = {}

-----------------------------------------------------------------------------
(* Registration. *)

\* A pool appears (external), and stays.
CreatePool ==
  /\ \E p \in (Pairs \X Fee) \ pools : pools' = pools \cup {p}
  /\ UNCHANGED <<bal, approved, routes, launchPools>>

\* _requirePool, _poolExists
PoolUsable(pair, fee) == fee \in AllowedFee /\ <<pair, fee>> \in pools

\* The pools of a route: direct, or by way of the stable coin.
RouteUsable(r) ==
  IF r.viaStable
    THEN PoolUsable("wbnb-stable", r.first) /\ PoolUsable("stable-quote", r.second)
    ELSE PoolUsable("wbnb-quote", r.first)

\* registerQuoteRoute, by the registrar.  The id is a hash of the route.
RegisterQuoteRoute ==
  /\ \E r \in Routes \ routes :
       /\ RouteUsable(r) /\ (r.viaStable => StableAllowed)
       /\ routes' = routes \cup {r}
  /\ UNCHANGED <<bal, approved, pools, launchPools>>

\* registerLaunchPool, by the registrar
RegisterLaunchPool ==
  /\ \E fee \in Fee \ launchPools :
       PoolUsable("quote-token", fee) /\ launchPools' = launchPools \cup {fee}
  /\ UNCHANGED <<bal, approved, pools, routes>>

-----------------------------------------------------------------------------
(* Moving coins.  State is a pair of balances b and approvals a. *)

Less(a, b) == IF a < b THEN a ELSE b

Give(b, from, to, c, n, tax) ==
  LET debited == [b EXCEPT ![from][c] = @ - n]
  IN [debited EXCEPT ![to][c] = @ + n - (IF c = "quote" THEN Less(tax, n) ELSE 0)]

\* forceApprove
Approve(a, h, c, n) == [a EXCEPT ![h][c] = n]

\* forceApprove(0), after every swap
ClearApproval(a, h, c) == [a EXCEPT ![h][c] = 0]

\* What the router may make of an approved amount: take some, pay at least min.
RouterSwaps(b, a, from, in, to, out, min) ==
  { [bal |-> Give(Give(b, from, "router", in, taken, 0), "router", to, out, paid, tax),
     approved |-> [a EXCEPT ![from][in] = @ - taken]] :
    taken \in 0..Less(a[from][in], b[from][in]),
    paid \in min..Less(MaxOut, b["router"][out]), tax \in Taxes }

\* Mutant: an adapter does not look whether coins of the swap are left.
RestoredIgnored(b, before, h) == TRUE

\* _restoreBalance, of the input, the output and the stable coin
Restored(b, before, h) == b[h] = before[h]

\* A swap through an adapter: pull the exact amount, swap, pass on what came
\* out, and only accept what the coordinator got if it is enough.
AdapterSwaps(b, a, h, in, out, amount, min) ==
  LET pulled == Give(b, "coordinator", h, in, amount, 0)
      approvals == Approve(Approve(a, "coordinator", in, 0), h, in, amount)
      gross(s) == s.bal[h][out] - b[h][out]
      paidOut(s, tax) == Give(s.bal, h, "coordinator", out, gross(s), tax)
  IN { end \in { [bal |-> paidOut(s, tax), approved |-> ClearApproval(s.approved, h, in)] :
                 s \in RouterSwaps(pulled, approvals, h, in, h, out, min), tax \in Taxes } :
         /\ end.bal["coordinator"][out] - b["coordinator"][out] >= min
         /\ Restored(end.bal, b, h) }

\* swapExactWbnbForQuote
SwapWbnbForQuote(b, a, amount, min) ==
  IF \E r \in routes : RouteUsable(r)
    THEN AdapterSwaps(b, a, "quoteAdapter", "wbnb", "quote", amount, min) ELSE {}

\* buyWithQuote, of a launch whose quote coin is quote; a coin that keeps
\* something back fails the exact pull.
BuyWithQuote(b, a, quote, amount, min) ==
  IF \E f \in launchPools : PoolUsable("quote-token", f)
    THEN AdapterSwaps(b, a, "poolAdapter", quote, "token", amount, min) ELSE {}
=============================================================================
