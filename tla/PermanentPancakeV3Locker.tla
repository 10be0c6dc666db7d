---------------------- MODULE PermanentPancakeV3Locker ----------------------
(***************************************************************************)
(* The locker of a direct launch.  It takes one position from its factory, *)
(* is told once what the position is, and from then on collects its fees   *)
(* and lets two beneficiaries claim them.  Of every collection the creator *)
(* gets the share rounded down, and per coin the rest of the division is   *)
(* carried into the next one.                                              *)
(*                                                                         *)
(* Coins behave: a transfer moves what it says.  Rebasing or taxed quote   *)
(* tokens are outside of what the contract can keep (see its documents).   *)
(***************************************************************************)
EXTENDS LockerTerms

CONSTANTS
  ExpectedId, Position, \* the position of the locker, and all positions
  MaxTotal              \* bound: coins that ever enter the locker, per coin

ASSUME PancakeLockerAssumption == ExpectedId \in Position /\ MaxTotal \in Nat

VARIABLES
  held,           \* positions the locker owns
  received, finalized,
  balance, claimable,
  remainder,      \* creatorFeeRemainder
  collected       \* history: all it has collected, per coin

vars == <<held, received, finalized, balance, claimable, remainder, collected>>

\* The first locker, with the total and the share it would have stored.
V1 == INSTANCE PermanentV3Locker WITH
  initialized <- finalized, totalCollected <- collected,
  creatorShare <- [c \in Coin |-> (collected[c] * CreatorFeeBps) \div BPS]

Init ==
  /\ held = {} /\ received = FALSE /\ finalized = FALSE
  /\ balance = Zero /\ claimable = [b \in Beneficiary |-> Zero]
  /\ remainder = Zero /\ collected = Zero

Accepts(id, fromFactory) == ~received /\ fromFactory /\ id = ExpectedId

\* onERC721Received, called for a safe transfer; it reverts what it refuses.
ReceivePosition ==
  /\ \E id \in Position \ held, fromFactory \in BOOLEAN :
       Accepts(id, fromFactory) /\ held' = held \cup {id}
  /\ received' = TRUE
  /\ UNCHANGED <<finalized, balance, claimable, remainder, collected>>

\* A plain transfer of a position asks nobody.
SendPosition ==
  /\ \E id \in Position \ held : held' = held \cup {id}
  /\ UNCHANGED <<received, finalized, balance, claimable, remainder, collected>>

\* finalize by the factory, which passes the position it has minted.
Finalize ==
  /\ received /\ ~finalized /\ ExpectedId \in held
  /\ finalized' = TRUE
  /\ UNCHANGED <<held, received, balance, claimable, remainder, collected>>

\* Mutant: every collection is rounded down for itself.
NumeratorAlone(c, amount) == amount * CreatorFeeBps

\* _splitCollectedFee, with the remainder carried for the coin
Numerator(c, amount) == amount * CreatorFeeBps + remainder[c]

Credited(amount) == [c \in Coin |-> Numerator(c, amount[c]) \div BPS]

\* Mutant: whatever the locker holds counts as collected.
CollectionOfAll(c, before, after) == after[c]

\* What a collection brought: the difference of two balances.
Collection(c, before, after) == after[c] - before[c]

Collect ==
  /\ finalized
  /\ \E fees \in Amounts :
       LET after == [c \in Coin |-> balance[c] + fees[c]]
           amount == [c \in Coin |-> Collection(c, balance, after)]
           creators == Credited(amount)
       IN /\ \A c \in Coin : collected[c] + amount[c] <= MaxTotal
          /\ balance' = after
          /\ remainder' = [c \in Coin |-> Numerator(c, amount[c]) % BPS]
          /\ claimable' =
               [b \in Beneficiary |-> [c \in Coin |-> claimable[b][c]
                  + (IF b = Creator THEN creators[c] ELSE 0)
                  + (IF b = Treasury THEN amount[c] - creators[c] ELSE 0)]]
          /\ collected' = [c \in Coin |-> collected[c] + amount[c]]
  /\ UNCHANGED <<held, received, finalized>>

Claim ==
  /\ finalized
  /\ \E b \in Beneficiary, c \in Coin :
       /\ balance[c] >= claimable[b][c]
       /\ claimable' = [claimable EXCEPT ![b][c] = 0]
       /\ balance' = [balance EXCEPT ![c] = @ - claimable[b][c]]
  /\ UNCHANGED <<held, received, finalized, remainder, collected>>

Donate ==
  /\ \E amount \in Amounts :
       /\ \A c \in Coin : balance[c] + amount[c] <= MaxTotal
       /\ balance' = [c \in Coin |-> balance[c] + amount[c]]
  /\ UNCHANGED <<held, received, finalized, claimable, remainder, collected>>

Next == ReceivePosition \/ SendPosition \/ Finalize \/ Collect \/ Claim \/ Donate

Spec == Init /\ [][Next]_vars

(******************************** properties ******************************)
\* What beneficiaries may claim is always there: no order of collections,
\* claims and donations lets one of them be paid with the other's money.
ClaimsCovered ==
  \A c \in Coin :
    balance[c] >= claimable[Creator][c]
                    + (IF Creator = Treasury THEN 0 ELSE claimable[Treasury][c])

\* Carrying a remainder pays both beneficiaries exactly what the first locker
\* would have paid them, after every history of collections and claims.
SplitsLikeV1 == V1!Spec
============================================================================
