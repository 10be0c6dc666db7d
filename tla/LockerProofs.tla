---------------------------- MODULE LockerProofs ----------------------------
(***************************************************************************)
(* For every pair of beneficiaries - one account may be both - every share *)
(* and all amounts: what the locker owes is there, and it credits what the *)
(* first version would have.  Both rest on one fact: the remainder of a    *)
(* coin is the one of its whole history, (collected * share) % BPS.        *)
(***************************************************************************)
EXTENDS PermanentPancakeV3Locker, TLAPS

Due(c) == IF Creator = Treasury THEN 0 ELSE claimable[Treasury][c]

LockerTypes ==
  /\ finalized \in BOOLEAN
  /\ balance \in [Coin -> Nat] /\ collected \in [Coin -> Nat]
  /\ claimable \in [Beneficiary -> [Coin -> Nat]]
  /\ remainder \in [Coin -> Nat]

RemainderExact == \A c \in Coin : remainder[c] = (collected[c] * CreatorFeeBps) % BPS

LockerInv == LockerTypes /\ RemainderExact /\ ClaimsCovered

\* Dividing piece by piece, the remainder carried, is dividing the sum.
LEMMA CarriedDivision ==
  ASSUME NEW p \in Nat, NEW q \in Nat, NEW b \in Nat \ {0}
  PROVE /\ (q + (p % b)) \div b = ((p + q) \div b) - (p \div b)
        /\ (q + (p % b)) % b = (p + q) % b
        /\ q + (p % b) \in Nat /\ (q + (p % b)) \div b \in Nat /\ (q + (p % b)) % b \in Nat
        /\ p % b < b
<1>1. /\ (q + (p % b)) \div b = ((p + q) \div b) - (p \div b)
      /\ (q + (p % b)) % b = (p + q) % b
  OBVIOUS
<1>2. p % b \in Nat /\ p % b < b
  OBVIOUS
<1>3. \A n \in Nat : n \div b \in Nat /\ n % b \in Nat
  OBVIOUS
<1> QED BY <1>1, <1>2, <1>3

\* The creator's part of a collection is none of it, or less than it.
LEMMA CarriedShare ==
  ASSUME NEW t \in Nat, NEW a \in Nat, NEW f \in Nat, NEW b \in Nat \ {0}, f <= b
  PROVE LET n == (a * f) + ((t * f) % b)
        IN /\ n \in Nat /\ n \div b \in Nat /\ n % b \in Nat
           /\ n \div b = (((t + a) * f) \div b) - ((t * f) \div b)
           /\ n % b = ((t + a) * f) % b
           /\ n \div b <= a
<1> DEFINE p == t * f  q == a * f
<1>1. p \in Nat /\ q \in Nat /\ (t + a) * f = p + q
  OBVIOUS
<1>2. q <= a * b
  <2>1. a * (b - f) \in Nat
    OBVIOUS
  <2>2. a * (b - f) = (a * b) - (a * f)
    OBVIOUS
  <2> QED BY <2>1, <2>2
<1> HIDE DEF p, q
<1>3. /\ (q + (p % b)) \div b = ((p + q) \div b) - (p \div b)
      /\ (q + (p % b)) % b = (p + q) % b
      /\ q + (p % b) \in Nat /\ (q + (p % b)) \div b \in Nat /\ (q + (p % b)) % b \in Nat
      /\ p % b < b
  BY <1>1, CarriedDivision
<1>4. (q + (p % b)) \div b <= a
  <2> DEFINE n == q + (p % b)
  <2>1. n \in Nat /\ n < (a + 1) * b
    BY <1>1, <1>2, <1>3
  <2> HIDE DEF n
  <2>2. n >= b * (n \div b)
    BY <2>1
  <2>3. SUFFICES ASSUME n \div b >= a + 1 PROVE FALSE
    BY <1>3, <2>1 DEF n
  <2>4. n \div b \in Nat
    BY <2>1
  <2>5. b * (n \div b) >= b * (a + 1)
    BY <2>3, <2>4
  <2> QED BY <2>1, <2>2, <2>5
<1> QED BY <1>1, <1>3, <1>4 DEF p, q

\* A collection credits per coin what CarriedShare says of it.
LEMMA CollectionCredits ==
  ASSUME LockerInv, NEW fees \in Amounts, NEW c \in Coin
  PROVE LET n == Numerator(c, fees[c])
            total == collected[c] + fees[c]
        IN /\ n % BPS = (total * CreatorFeeBps) % BPS
           /\ n % BPS \in Nat /\ n \div BPS \in Nat
           /\ n \div BPS <= fees[c]
           /\ n \div BPS = ((total * CreatorFeeBps) \div BPS)
                             - ((collected[c] * CreatorFeeBps) \div BPS)
<1>1. fees[c] \in Nat /\ collected[c] \in Nat
  BY LockerAssumption DEF Amounts, LockerInv, LockerTypes
<1>2. BPS \in Nat \ {0} /\ CreatorFeeBps \in Nat /\ CreatorFeeBps <= BPS
  BY LockerAssumption
<1>3. Numerator(c, fees[c])
        = (fees[c] * CreatorFeeBps) + ((collected[c] * CreatorFeeBps) % BPS)
  BY DEF LockerInv, RemainderExact, Numerator
<1>4. LET n == (fees[c] * CreatorFeeBps) + ((collected[c] * CreatorFeeBps) % BPS)
      IN /\ n \in Nat /\ n \div BPS \in Nat /\ n % BPS \in Nat
         /\ n \div BPS = (((collected[c] + fees[c]) * CreatorFeeBps) \div BPS)
                            - ((collected[c] * CreatorFeeBps) \div BPS)
         /\ n % BPS = ((collected[c] + fees[c]) * CreatorFeeBps) % BPS
         /\ n \div BPS <= fees[c]
  BY <1>1, <1>2, CarriedShare
<1> QED BY <1>3, <1>4, Zenon

THEOREM LockerInitially == Init => LockerInv
<1> SUFFICES ASSUME Init PROVE LockerInv
  OBVIOUS
<1>1. \A c \in Coin : balance[c] = 0 /\ collected[c] = 0 /\ remainder[c] = 0
  BY DEF Init, Zero
<1>2. \A b \in Beneficiary, c \in Coin : claimable[b][c] = 0
  BY DEF Init, Zero
<1>3. LockerTypes
  BY DEF Init, Zero, LockerTypes
<1>4. RemainderExact
  <2>1. 0 * CreatorFeeBps = 0 /\ 0 % BPS = 0
    BY LockerAssumption
  <2> QED BY <1>1, <2>1 DEF RemainderExact
<1>5. ClaimsCovered
  BY <1>1, <1>2 DEF ClaimsCovered, Beneficiary
<1> QED BY <1>3, <1>4, <1>5 DEF LockerInv

\* What a Collect step is, coin by coin.
LEMMA CollectStep ==
  ASSUME LockerInv, Collect
  PROVE finalized /\ finalized' = finalized /\
    \E fees \in Amounts :
      /\ balance' = [c \in Coin |-> balance[c] + fees[c]]
      /\ collected' = [c \in Coin |-> collected[c] + fees[c]]
      /\ remainder' = [c \in Coin |-> Numerator(c, fees[c]) % BPS]
      /\ claimable' =
           [b \in Beneficiary |-> [c \in Coin |-> claimable[b][c]
              + (IF b = Creator THEN Numerator(c, fees[c]) \div BPS ELSE 0)
              + (IF b = Treasury THEN fees[c] - (Numerator(c, fees[c]) \div BPS) ELSE 0)]]
<1>1. PICK fees \in Amounts :
        LET after == [c \in Coin |-> balance[c] + fees[c]]
            amount == [c \in Coin |-> Collection(c, balance, after)]
            creators == Credited(amount)
        IN /\ balance' = after
           /\ remainder' = [c \in Coin |-> Numerator(c, amount[c]) % BPS]
           /\ claimable' =
                [b \in Beneficiary |-> [c \in Coin |-> claimable[b][c]
                   + (IF b = Creator THEN creators[c] ELSE 0)
                   + (IF b = Treasury THEN amount[c] - creators[c] ELSE 0)]]
           /\ collected' = [c \in Coin |-> collected[c] + amount[c]]
  BY DEF Collect
<1> DEFINE after == [c \in Coin |-> balance[c] + fees[c]]
           amount == [c \in Coin |-> Collection(c, balance, after)]
<1>2. amount = fees
  <2>1. \A c \in Coin : amount[c] = fees[c]
    BY LockerAssumption DEF Collection, Amounts, LockerInv, LockerTypes
  <2>2. fees = [c \in Coin |-> fees[c]]
    BY DEF Amounts
  <2> QED BY <2>1, <2>2
<1> HIDE DEF amount
<1>3. /\ balance' = after
      /\ remainder' = [c \in Coin |-> Numerator(c, fees[c]) % BPS]
      /\ claimable' =
           [b \in Beneficiary |-> [c \in Coin |-> claimable[b][c]
              + (IF b = Creator THEN Credited(fees)[c] ELSE 0)
              + (IF b = Treasury THEN fees[c] - Credited(fees)[c] ELSE 0)]]
      /\ collected' = [c \in Coin |-> collected[c] + fees[c]]
  BY <1>1, <1>2 DEF amount
<1>4. \A c \in Coin : Credited(fees)[c] = Numerator(c, fees[c]) \div BPS
  BY DEF Credited
<1>5. finalized /\ finalized' = finalized
  BY DEF Collect
<1> QED BY <1>3, <1>4, <1>5

LEMMA CollectKeepsInv == LockerInv /\ Collect => LockerInv'
<1> SUFFICES ASSUME LockerInv, Collect PROVE LockerInv'
  OBVIOUS
<1>1. PICK fees \in Amounts :
      /\ balance' = [c \in Coin |-> balance[c] + fees[c]]
      /\ collected' = [c \in Coin |-> collected[c] + fees[c]]
      /\ remainder' = [c \in Coin |-> Numerator(c, fees[c]) % BPS]
      /\ claimable' =
           [b \in Beneficiary |-> [c \in Coin |-> claimable[b][c]
              + (IF b = Creator THEN Numerator(c, fees[c]) \div BPS ELSE 0)
              + (IF b = Treasury THEN fees[c] - (Numerator(c, fees[c]) \div BPS) ELSE 0)]]
  BY CollectStep
<1> DEFINE part(c) == Numerator(c, fees[c]) \div BPS
<1>2. \A c \in Coin :
        /\ fees[c] \in Nat /\ part(c) \in Nat /\ part(c) <= fees[c]
        /\ Numerator(c, fees[c]) % BPS \in Nat
        /\ Numerator(c, fees[c]) % BPS = ((collected[c] + fees[c]) * CreatorFeeBps) % BPS
  BY CollectionCredits, LockerAssumption DEF Amounts
<1> HIDE DEF part
<1>3. claimable' = [b \in Beneficiary |-> [c \in Coin |-> claimable[b][c]
              + (IF b = Creator THEN part(c) ELSE 0)
              + (IF b = Treasury THEN fees[c] - part(c) ELSE 0)]]
  BY <1>1 DEF part
<1>4. \A c \in Coin : fees[c] - part(c) \in Nat
  BY <1>2
<1>5. LockerTypes'
  <2>1. finalized' \in BOOLEAN
    BY CollectStep DEF LockerInv, LockerTypes
  <2>2. balance' \in [Coin -> Nat] /\ collected' \in [Coin -> Nat] /\ remainder' \in [Coin -> Nat]
    BY <1>1, <1>2 DEF LockerInv, LockerTypes
  <2>3. claimable' \in [Beneficiary -> [Coin -> Nat]]
    BY <1>2, <1>3, <1>4 DEF LockerInv, LockerTypes
  <2> QED BY <2>1, <2>2, <2>3 DEF LockerTypes
<1>6. RemainderExact'
  BY <1>1, <1>2 DEF RemainderExact
<1>7. ClaimsCovered'
  <2> SUFFICES ASSUME NEW c \in Coin
               PROVE balance'[c] >= claimable'[Creator][c]
                       + (IF Creator = Treasury THEN 0 ELSE claimable'[Treasury][c])
    BY DEF ClaimsCovered
  <2>1. /\ balance[c] \in Nat /\ claimable[Creator][c] \in Nat /\ claimable[Treasury][c] \in Nat
        /\ balance[c] >= claimable[Creator][c]
                          + (IF Creator = Treasury THEN 0 ELSE claimable[Treasury][c])
    BY DEF LockerInv, LockerTypes, ClaimsCovered, Beneficiary
  <2>2. balance'[c] = balance[c] + fees[c]
    BY <1>1
  <2>3. claimable'[Creator][c] = claimable[Creator][c] + part(c)
                                   + (IF Creator = Treasury THEN fees[c] - part(c) ELSE 0)
    BY <1>3 DEF Beneficiary
  <2>4. Creator # Treasury => claimable'[Treasury][c] = claimable[Treasury][c] + 0 + (fees[c] - part(c))
    BY <1>3 DEF Beneficiary
  <2> QED BY <1>2, <2>1, <2>2, <2>3, <2>4
<1> QED BY <1>5, <1>6, <1>7 DEF LockerInv

LEMMA ClaimKeepsInv == LockerInv /\ Claim => LockerInv'
<1> SUFFICES ASSUME LockerInv, Claim PROVE LockerInv'
  OBVIOUS
<1>1. PICK b \in Beneficiary, d \in Coin :
        /\ balance[d] >= claimable[b][d]
        /\ claimable' = [claimable EXCEPT ![b][d] = 0]
        /\ balance' = [balance EXCEPT ![d] = @ - claimable[b][d]]
  BY DEF Claim
<1>2. UNCHANGED <<finalized, remainder, collected>>
  BY DEF Claim
<1>3. LockerTypes'
  BY <1>1, <1>2 DEF LockerInv, LockerTypes
<1>4. RemainderExact'
  BY <1>2 DEF LockerInv, RemainderExact
<1>5. ClaimsCovered'
  <2> SUFFICES ASSUME NEW c \in Coin
               PROVE balance'[c] >= claimable'[Creator][c]
                       + (IF Creator = Treasury THEN 0 ELSE claimable'[Treasury][c])
    BY DEF ClaimsCovered
  <2>1. /\ balance[c] \in Nat /\ claimable[Creator][c] \in Nat /\ claimable[Treasury][c] \in Nat
        /\ balance[c] >= claimable[Creator][c]
                          + (IF Creator = Treasury THEN 0 ELSE claimable[Treasury][c])
    BY DEF LockerInv, LockerTypes, ClaimsCovered, Beneficiary
  <2>2. balance'[c] = IF c = d THEN balance[c] - claimable[b][c] ELSE balance[c]
    BY <1>1 DEF LockerInv, LockerTypes
  <2>3. \A x \in Beneficiary :
          claimable'[x][c] = IF x = b /\ c = d THEN 0 ELSE claimable[x][c]
    BY <1>1 DEF LockerInv, LockerTypes
  <2> QED BY <2>1, <2>2, <2>3 DEF Beneficiary
<1> QED BY <1>3, <1>4, <1>5 DEF LockerInv

LEMMA DonateKeepsInv == LockerInv /\ Donate => LockerInv'
<1> SUFFICES ASSUME LockerInv, Donate PROVE LockerInv'
  OBVIOUS
<1>1. PICK amount \in Amounts : balance' = [c \in Coin |-> balance[c] + amount[c]]
  BY DEF Donate
<1>2. UNCHANGED <<finalized, claimable, remainder, collected>>
  BY DEF Donate
<1>3. \A c \in Coin : amount[c] \in Nat
  BY LockerAssumption DEF Amounts
<1>4. LockerTypes'
  BY <1>1, <1>2, <1>3 DEF LockerInv, LockerTypes
<1>5. RemainderExact'
  BY <1>2 DEF LockerInv, RemainderExact
<1>6. ClaimsCovered'
  <2>1. \A c \in Coin : claimable[Creator][c] \in Nat /\ claimable[Treasury][c] \in Nat
                          /\ balance[c] \in Nat
    BY DEF LockerInv, LockerTypes, Beneficiary
  <2> QED BY <1>1, <1>2, <1>3, <2>1 DEF LockerInv, ClaimsCovered
<1> QED BY <1>4, <1>5, <1>6 DEF LockerInv

\* The invariant is inductive: only a collection changes what is owed.
THEOREM LockerStep == LockerInv /\ [Next]_vars => LockerInv'
<1> SUFFICES ASSUME LockerInv, [Next]_vars PROVE LockerInv'
  OBVIOUS
<1>1. CASE ReceivePosition \/ SendPosition \/ Finalize \/ UNCHANGED vars
  <2>1. UNCHANGED <<balance, claimable, remainder, collected>> /\ finalized' \in BOOLEAN
    BY <1>1 DEF ReceivePosition, SendPosition, Finalize, vars, LockerInv, LockerTypes
  <2> QED BY <2>1 DEF LockerInv, LockerTypes, RemainderExact, ClaimsCovered
<1> QED BY <1>1, CollectKeepsInv, ClaimKeepsInv, DonateKeepsInv DEF Next

THEOREM LockerInvHolds == Spec => []LockerInv
  BY LockerInitially, LockerStep, PTL DEF Spec

\* What both beneficiaries may claim of a coin is there, for every share, also
\* when one account is both (collect, claim and donations of the locker).
THEOREM ClaimsAreCovered == Spec => []ClaimsCovered
<1>1. LockerInv => ClaimsCovered
  BY DEF LockerInv
<1> QED BY <1>1, LockerInvHolds, PTL
-----------------------------------------------------------------------------
(* The refinement: this locker with its remainder credits what the first one  *)
(* credits from its two totals.                                               *)
LEMMA V1Initially == Init => V1!Init
  <1> SUFFICES ASSUME Init PROVE V1!Init
    OBVIOUS
  <1>1. \A c \in Coin : (collected[c] * CreatorFeeBps) \div BPS = 0
    <2>1. 0 * CreatorFeeBps = 0 /\ 0 \div BPS = 0
      BY LockerAssumption
    <2> QED BY <2>1 DEF Init, Zero
  <1> QED BY <1>1 DEF Init, Zero, V1!Init, Beneficiary, V1!Beneficiary

LEMMA V1Collects == LockerInv /\ Collect => V1!Collect
<1> SUFFICES ASSUME LockerInv, Collect PROVE V1!Collect
  OBVIOUS
<1>1. PICK fees \in Amounts :
      /\ balance' = [c \in Coin |-> balance[c] + fees[c]]
      /\ collected' = [c \in Coin |-> collected[c] + fees[c]]
      /\ claimable' =
           [b \in Beneficiary |-> [c \in Coin |-> claimable[b][c]
              + (IF b = Creator THEN Numerator(c, fees[c]) \div BPS ELSE 0)
              + (IF b = Treasury THEN fees[c] - (Numerator(c, fees[c]) \div BPS) ELSE 0)]]
  BY CollectStep
<1> DEFINE total == [c \in Coin |-> collected[c] + fees[c]]
           share == [c \in Coin |-> (total[c] * CreatorFeeBps) \div BPS]
           before == [c \in Coin |-> (collected[c] * CreatorFeeBps) \div BPS]
           creators == [c \in Coin |-> share[c] - before[c]]
<1>2. \A c \in Coin : Numerator(c, fees[c]) \div BPS = creators[c]
  BY CollectionCredits
<1>3. finalized /\ finalized' = finalized
  BY CollectStep
<1>4. collected' = total
  BY <1>1
<1>5. [c \in Coin |-> (collected'[c] * CreatorFeeBps) \div BPS] = share
  BY <1>4
<1> HIDE DEF share, before
<1>6. claimable' = V1!Credit(claimable, creators, [c \in Coin |-> fees[c] - creators[c]])
  BY <1>1, <1>2 DEF V1!Credit, V1!Beneficiary, Beneficiary
<1> QED BY <1>1, <1>3, <1>4, <1>5, <1>6 DEF V1!Collect, V1!Amounts, Amounts, share, before

\* Every step of this locker is one of the first version, or changes nothing in it.
LEMMA V1Steps == LockerInv /\ [Next]_vars => [V1!Next]_(V1!vars)
<1> SUFFICES ASSUME LockerInv, [Next]_vars PROVE V1!Next \/ UNCHANGED V1!vars
  OBVIOUS
<1>1. CASE ReceivePosition \/ SendPosition \/ UNCHANGED vars
  BY <1>1 DEF ReceivePosition, SendPosition, vars, V1!vars
<1>2. CASE Finalize
  BY <1>2 DEF Finalize, V1!Next, V1!Initialize
<1>3. CASE Collect
  BY <1>3, V1Collects DEF V1!Next
<1>4. CASE Claim
  BY <1>4 DEF Claim, V1!Next, V1!Claim, V1!Beneficiary, Beneficiary
<1>5. CASE Donate
  BY <1>5 DEF Donate, V1!Next, V1!Donate, V1!Amounts, Amounts
<1> QED BY <1>1, <1>2, <1>3, <1>4, <1>5 DEF Next

\* Carrying a remainder implements the exact share of the total: for all shares
\* and amounts, and whatever the order of collections, claims and donations
\* (_splitCollectedFee against PermanentV3Locker._splitCollected).
THEOREM SplitsAsTheFirst == Spec => SplitsLikeV1
  BY LockerInvHolds, V1Initially, V1Steps, PTL DEF Spec, SplitsLikeV1, V1!Spec

=============================================================================
