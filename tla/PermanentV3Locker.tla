------------------------- MODULE PermanentV3Locker -------------------------
(***************************************************************************)
(* The first version of the locker.  It keeps, per token, all it has       *)
(* collected and what the creator was credited of it, so its split is the  *)
(* exact share of the total, whatever the collections it came in.  This is *)
(* also what its successor promises, which keeps a remainder instead.      *)
(***************************************************************************)
EXTENDS LockerTerms

VARIABLES
  initialized,
  balance,        \* what the locker holds of each coin
  claimable,      \* per beneficiary and coin
  totalCollected, creatorShare

vars == <<initialized, balance, claimable, totalCollected, creatorShare>>

Init ==
  /\ initialized = FALSE
  /\ balance = [c \in Coin |-> 0]
  /\ claimable = [b \in Beneficiary |-> [c \in Coin |-> 0]]
  /\ totalCollected = [c \in Coin |-> 0] /\ creatorShare = [c \in Coin |-> 0]

\* initialize, after the position was minted to the locker
Initialize ==
  /\ ~initialized /\ initialized' = TRUE
  /\ UNCHANGED <<balance, claimable, totalCollected, creatorShare>>

\* One account may be both beneficiaries: the two credits then add up.
Credit(old, creators, protocols) ==
  [b \in Beneficiary |-> [c \in Coin |->
     old[b][c] + (IF b = Creator THEN creators[c] ELSE 0)
               + (IF b = Treasury THEN protocols[c] ELSE 0)]]

\* collect: amounts are differences of balances around the manager's call.
Collect ==
  /\ initialized
  /\ \E amount \in Amounts :
       LET total == [c \in Coin |-> totalCollected[c] + amount[c]]
           share == [c \in Coin |-> (total[c] * CreatorFeeBps) \div BPS]
           creators == [c \in Coin |-> share[c] - creatorShare[c]]
       IN /\ totalCollected' = total /\ creatorShare' = share
          /\ claimable' = Credit(claimable, creators, [c \in Coin |-> amount[c] - creators[c]])
          /\ balance' = [c \in Coin |-> balance[c] + amount[c]]
  /\ UNCHANGED initialized

\* claim; a transfer that does not debit the exact amount reverts.
Claim ==
  /\ initialized
  /\ \E b \in Beneficiary, c \in Coin :
       /\ claimable' = [claimable EXCEPT ![b][c] = 0]
       /\ balance[c] >= claimable[b][c]
       /\ balance' = [balance EXCEPT ![c] = @ - claimable[b][c]]
  /\ UNCHANGED <<initialized, totalCollected, creatorShare>>

\* Anyone may send coins to the locker; they are never credited.
Donate ==
  /\ \E amount \in Amounts : balance' = [c \in Coin |-> balance[c] + amount[c]]
  /\ UNCHANGED <<initialized, claimable, totalCollected, creatorShare>>

Next == Initialize \/ Collect \/ Claim \/ Donate

Spec == Init /\ [][Next]_vars
============================================================================
