----------------------------- MODULE CurveProofs -----------------------------
(***************************************************************************)
(* The curve market and its reward vault, for every market, fee, threshold *)
(* and finite set of accounts.                                             *)
(***************************************************************************)
EXTENDS BondingMarket, FiniteSetTheorems, WellFoundedInduction, TLAPS

VaultRecords ==
  [tracked : [Account -> Nat], shares : [Account -> Nat], paid : [Account -> Nat],
   remainder : [Account -> Nat], accrued : [Account -> Nat],
   total : Int, perShare : Nat, accounted : Int, undistributed : Nat,
   notified : Int, claimed : Int]

VaultOK(v) == v \in VaultRecords /\ \A a \in Account : v.paid[a] <= v.perShare

-----------------------------------------------------------------------------
(* Arithmetic. *)

\* Splitting off the whole part of e before adding r loses nothing.
LEMMA SplitDivision ==
  ASSUME NEW e \in Nat, NEW r \in Nat, NEW s \in Nat \ {0}
  PROVE /\ (e \div s) + ((r + (e % s)) \div s) = (r + e) \div s
        /\ e \div s \in Nat /\ e % s \in Nat /\ (r + (e % s)) \div s \in Nat
<1>1. /\ e \div s \in Nat /\ e % s \in Nat
      /\ e = (s * (e \div s)) + (e % s)
  OBVIOUS
<1>2. (e \div s) + ((r + (e % s)) \div s) = (r + e) \div s
  OBVIOUS
<1>3. \A n \in Nat : n \div s \in Nat
  OBVIOUS
<1> QED BY <1>1, <1>2, <1>3

LEMMA DivisionGrows ==
  ASSUME NEW m \in Nat, NEW n \in Nat, m <= n, NEW s \in Nat \ {0}
  PROVE m \div s <= n \div s
<1>1. /\ m \div s \in Nat /\ n \div s \in Nat
      /\ m >= s * (m \div s) /\ n < s * ((n \div s) + 1)
  OBVIOUS
<1>2. SUFFICES ASSUME m \div s >= (n \div s) + 1 PROVE FALSE
  BY <1>1
<1>3. s * (m \div s) >= s * ((n \div s) + 1)
  BY <1>1, <1>2
<1> QED BY <1>1, <1>3

\* A quotient rounded up, times the divisor, is no less than the dividend.
LEMMA CeilCovers ==
  ASSUME NEW n \in Nat, NEW d \in Nat \ {0}
  PROVE CeilDiv(n, d) \in Nat /\ CeilDiv(n, d) * d >= n
<1> DEFINE m == n + d - 1  q == m \div d
<1>1. m \in Nat /\ m = n + d - 1
  OBVIOUS
<1> HIDE DEF m
<1>2. q \in Nat /\ m < (d * q) + d
  BY <1>1
<1> HIDE DEF q
<1>3. q * d >= n
  BY <1>1, <1>2
<1> QED BY <1>2, <1>3 DEF q, m, CeilDiv

-----------------------------------------------------------------------------
(* Sums over the accounts.  Sum is a recursive function on the subsets of a *)
(* finite set; that there is such a function, and what it computes, follows *)
(* by looking at a smallest subset for which it would be otherwise.         *)

\* g adds up the values of f over every subset of S.
Adds(f, g, S) ==
  g = [s \in SUBSET S |-> IF s = {} THEN 0
                          ELSE LET x == CHOOSE x \in s : TRUE IN f[x] + g[s \ {x}]]

\* In a family of subsets of a finite set there is a smallest one.
LEMMA SmallestSubset ==
  ASSUME NEW S, IsFiniteSet(S), NEW Family \in SUBSET SUBSET S, Family # {}
  PROVE  \E s \in Family : \A t \in SUBSET s : t # s => t \notin Family
<1>1. Family \subseteq FiniteSubsetsOf(S)
  BY FS_Subset DEF FiniteSubsetsOf
<1>2. IsWellFoundedOn(StrictSubsetOrdering(S), FiniteSubsetsOf(S))
  BY FS_StrictSubsetOrderingWellFounded
<1>3. \E s \in Family : \A t \in Family : ~ (<<t, s>> \in StrictSubsetOrdering(S))
  BY <1>1, <1>2, WFMin
<1> QED
  BY <1>3 DEF StrictSubsetOrdering

LEMMA AddsUnique ==
  ASSUME NEW f, NEW S, IsFiniteSet(S), NEW g, NEW h,
         NEW A \in SUBSET S, NEW B \in SUBSET S, Adds(f, g, A), Adds(f, h, B),
         NEW s \in SUBSET (A \cap B)
  PROVE  g[s] = h[s]
<1> DEFINE Bad == { t \in SUBSET (A \cap B) : g[t] # h[t] }
<1> SUFFICES ASSUME Bad # {} PROVE FALSE
  OBVIOUS
<1>1. PICK t \in Bad : \A u \in SUBSET t : u # t => u \notin Bad
  <2>1. Bad \in SUBSET SUBSET S
    OBVIOUS
  <2> HIDE DEF Bad
  <2> QED
    BY <2>1, SmallestSubset
<1>2. t \in SUBSET A /\ t \in SUBSET B /\ g[t] # h[t]
  BY <1>1
<1> DEFINE x == CHOOSE y \in t : TRUE
<1>3. /\ g[t] = IF t = {} THEN 0 ELSE f[x] + g[t \ {x}]
      /\ h[t] = IF t = {} THEN 0 ELSE f[x] + h[t \ {x}]
  BY <1>2 DEF Adds
<1>4. t # {} /\ x \in t
  BY <1>2, <1>3
<1>5. g[t \ {x}] = h[t \ {x}]
  BY <1>1, <1>4
<1> QED
  BY <1>2, <1>3, <1>4, <1>5

LEMMA AddsExists ==
  ASSUME NEW f, NEW S, IsFiniteSet(S)
  PROVE  \E g : Adds(f, g, S)
<1> DEFINE Bad == { t \in SUBSET S : ~ \E g : Adds(f, g, t) }
<1> SUFFICES ASSUME Bad # {} PROVE FALSE
  OBVIOUS
<1>1. PICK T \in Bad : \A u \in SUBSET T : u # T => u \notin Bad
  <2>1. Bad \in SUBSET SUBSET S
    OBVIOUS
  <2> HIDE DEF Bad
  <2> QED
    BY <2>1, SmallestSubset
<1>2. T \in SUBSET S /\ ~ \E g : Adds(f, g, T)
  BY <1>1
<1> DEFINE G(s) == CHOOSE g : Adds(f, g, s)
           x(s) == CHOOSE y \in s : TRUE
           h == [s \in SUBSET T |-> IF s = T
                   THEN IF s = {} THEN 0 ELSE f[x(s)] + G(s \ {x(s)})[s \ {x(s)}]
                   ELSE G(s)[s]]
<1>3. ASSUME NEW s \in SUBSET T, s # T PROVE Adds(f, G(s), s)
  BY <1>1, <1>2, <1>3
<1> HIDE DEF Bad
<1>4. ASSUME NEW s \in SUBSET T
      PROVE  h[s] = IF s = {} THEN 0 ELSE f[x(s)] + h[s \ {x(s)}]
  <2>1. CASE s = T
    BY <2>1
  <2>2. CASE s # T
    <3>1. h[s] = G(s)[s] /\ Adds(f, G(s), s)
      BY <1>3, <2>2
    <3>2. G(s)[s] = IF s = {} THEN 0 ELSE f[x(s)] + G(s)[s \ {x(s)}]
      BY <3>1 DEF Adds
    <3>3. CASE s = {}
      BY <3>1, <3>2, <3>3
    <3>4. CASE s # {}
      <4> DEFINE t == s \ {x(s)}
      <4>1. t \in SUBSET s /\ t \in SUBSET T /\ t # T /\ s \in SUBSET S /\ t \in SUBSET S
        BY <1>2, <2>2
      <4>2. Adds(f, G(t), t) /\ h[t] = G(t)[t]
        BY <1>3, <4>1
      <4>3. G(s)[t] = G(t)[t]
        <5> HIDE DEF t, G
        <5>1. t \in SUBSET (s \cap t)
          BY <4>1
        <5> QED
          BY <3>1, <4>1, <4>2, <5>1, AddsUnique
      <4> QED
        BY <3>1, <3>2, <3>4, <4>2, <4>3
    <3> QED
      BY <3>3, <3>4
  <2> QED
    BY <2>1, <2>2
<1>5. Adds(f, h, T)
  <2>1. h = [s \in SUBSET T |-> h[s]]
    OBVIOUS
  <2> HIDE DEF h
  <2> QED
    BY <1>4, <2>1 DEF Adds
<1> QED
  BY <1>2, <1>5

\* The sum of f over the subset s of its domain.
PartSum(f, s) == (CHOOSE g : Adds(f, g, DOMAIN f))[s]

LEMMA PartSums ==
  ASSUME NEW S, IsFiniteSet(S), NEW f, DOMAIN f = S
  PROVE  /\ Sum(f) = PartSum(f, S)
         /\ PartSum(f, {}) = 0
         /\ \A s \in SUBSET S : s # {} =>
              LET x == CHOOSE x \in s : TRUE IN PartSum(f, s) = f[x] + PartSum(f, s \ {x})
<1> DEFINE g == CHOOSE g : Adds(f, g, S)
<1>1. Sum(f) = g[S]
  BY DEF Sum, MapThenSumSet, MapThenFoldSet, Adds
<1>2. Adds(f, g, S)
  BY AddsExists
<1>3. \A s : PartSum(f, s) = g[s]
  BY DEF PartSum
<1> HIDE DEF g
<1>4. /\ g[{}] = 0
      /\ \A s \in SUBSET S : s # {} => g[s] = f[CHOOSE x \in s : TRUE] + g[s \ {CHOOSE x \in s : TRUE}]
  BY <1>2 DEF Adds
<1> QED
  BY <1>1, <1>3, <1>4

\* A sum of integers is an integer.
LEMMA SumType ==
  ASSUME NEW S, IsFiniteSet(S), NEW f \in [S -> Int]
  PROVE  Sum(f) \in Int /\ \A s \in SUBSET S : PartSum(f, s) \in Int
<1> DEFINE Bad == { s \in SUBSET S : PartSum(f, s) \notin Int }
<1>1. ASSUME Bad # {} PROVE FALSE
  <2>1. PICK s \in Bad : \A t \in SUBSET s : t # s => t \notin Bad
    <3>1. Bad \in SUBSET SUBSET S
      OBVIOUS
    <3> HIDE DEF Bad
    <3> QED
      BY <1>1, <3>1, SmallestSubset
  <2> DEFINE x == CHOOSE x \in s : TRUE
  <2>2. PartSum(f, {}) = 0 /\ (s # {} => PartSum(f, s) = f[x] + PartSum(f, s \ {x}))
    BY <2>1, PartSums
  <2>3. s # {} /\ x \in s /\ f[x] \in Int
    <3>1. s \in SUBSET S /\ PartSum(f, s) \notin Int
      BY <2>1
    <3>2. s # {}
      <4> HIDE DEF x
      <4> QED
        BY <2>2, <3>1
    <3>3. x \in s
      BY <3>2
    <3> QED
      BY <3>1, <3>2, <3>3
  <2>4. PartSum(f, s \ {x}) \in Int
    BY <2>1, <2>3
  <2>5. PartSum(f, s) \in Int
    <3> HIDE DEF x
    <3> QED
      BY <2>2, <2>3, <2>4
  <2> QED
    BY <2>1, <2>5
<1> QED
  BY <1>1, PartSums

\* Sums are linear.
LEMMA SumLinear ==
  ASSUME NEW S, IsFiniteSet(S), NEW f \in [S -> Int], NEW g \in [S -> Int], NEW k \in Int,
         NEW h \in [S -> Int], \A a \in S : h[a] = f[a] + k * g[a]
  PROVE  Sum(h) = Sum(f) + k * Sum(g)
<1> DEFINE Bad == { s \in SUBSET S : PartSum(h, s) # PartSum(f, s) + k * PartSum(g, s) }
<1>1. ASSUME Bad # {} PROVE FALSE
  <2>1. PICK s \in Bad : \A t \in SUBSET s : t # s => t \notin Bad
    <3>1. Bad \in SUBSET SUBSET S
      OBVIOUS
    <3> HIDE DEF Bad
    <3> QED
      BY <1>1, <3>1, SmallestSubset
  <2> DEFINE x == CHOOSE x \in s : TRUE
             t == s \ {x}
  <2>2. /\ PartSum(f, {}) = 0 /\ PartSum(g, {}) = 0 /\ PartSum(h, {}) = 0
        /\ s # {} => /\ PartSum(f, s) = f[x] + PartSum(f, t)
                     /\ PartSum(g, s) = g[x] + PartSum(g, t)
                     /\ PartSum(h, s) = h[x] + PartSum(h, t)
    BY <2>1, PartSums
  <2>3. s # {}
    <3>1. PartSum(h, s) # PartSum(f, s) + k * PartSum(g, s)
      BY <2>1
    <3>2. 0 = 0 + k * 0
      OBVIOUS
    <3> QED
      BY <2>2, <3>1, <3>2
  <2>4. x \in S /\ x \in s /\ t \in SUBSET s /\ t # s
    BY <2>1, <2>3
  <2>5. PartSum(h, t) = PartSum(f, t) + k * PartSum(g, t)
    BY <2>1, <2>4
  <2>6. /\ PartSum(f, t) \in Int /\ PartSum(g, t) \in Int /\ f[x] \in Int /\ g[x] \in Int
        /\ h[x] = f[x] + k * g[x]
    BY <2>4, SumType
  <2>7. PartSum(h, s) = PartSum(f, s) + k * PartSum(g, s)
    <3> DEFINE p == PartSum(g, t)  q == g[x]
    <3> HIDE DEF x, t, p, q
    <3>1. k * (q + p) = k * q + k * p
      BY <2>6 DEF p, q
    <3> QED
      BY <2>2, <2>3, <2>5, <2>6, <3>1 DEF p, q
  <2> QED
    BY <2>1, <2>7
<1> QED
  BY <1>1, PartSums

\* Changing the value of one account changes the sum by as much.
LEMMA SumAtPoint ==
  ASSUME NEW S, IsFiniteSet(S), NEW f \in [S -> Int], NEW a \in S, NEW n \in Int
  PROVE  Sum([f EXCEPT ![a] = n]) = Sum(f) + n - f[a]
<1> DEFINE h == [f EXCEPT ![a] = n]
           D(s) == IF a \in s THEN n - f[a] ELSE 0
           Bad == { s \in SUBSET S : PartSum(h, s) # PartSum(f, s) + D(s) }
<1>0. h \in [S -> Int] /\ h[a] = n /\ \A b \in S \ {a} : h[b] = f[b]
  OBVIOUS
<1>1. ASSUME Bad # {} PROVE FALSE
  <2> HIDE DEF h
  <2>1. PICK s \in Bad : \A t \in SUBSET s : t # s => t \notin Bad
    <3>1. Bad \in SUBSET SUBSET S
      OBVIOUS
    <3> HIDE DEF Bad
    <3> QED
      BY <1>1, <3>1, SmallestSubset
  <2> DEFINE x == CHOOSE x \in s : TRUE
             t == s \ {x}
  <2>2. /\ PartSum(f, {}) = 0 /\ PartSum(h, {}) = 0
        /\ s # {} => /\ PartSum(f, s) = f[x] + PartSum(f, t)
                     /\ PartSum(h, s) = h[x] + PartSum(h, t)
    BY <1>0, <2>1, PartSums
  <2>3. s # {}
    <3>1. PartSum(h, s) # PartSum(f, s) + D(s)
      BY <2>1
    <3>2. ASSUME s = {} PROVE PartSum(h, s) = 0 /\ PartSum(f, s) = 0 /\ D(s) = 0
      BY <2>2, <3>2
    <3>3. 0 = 0 + 0
      OBVIOUS
    <3> HIDE DEF D
    <3> QED
      BY <3>1, <3>2, <3>3
  <2>4. x \in S /\ x \in s /\ t \in SUBSET s /\ t # s
    BY <2>1, <2>3
  <2>5. PartSum(h, t) = PartSum(f, t) + D(t)
    BY <2>1, <2>4
  <2>6. PartSum(f, t) \in Int /\ f[x] \in Int /\ f[a] \in Int
    BY <2>4, SumType
  <2>7. h[x] + D(t) = f[x] + D(s)
    <3>1. CASE x = a
      <4>1. D(t) = 0 /\ D(s) = n - f[a] /\ h[x] = n /\ f[x] = f[a]
        BY <1>0, <2>4, <3>1
      <4> HIDE DEF x, t, D
      <4> QED
        BY <2>6, <4>1
    <3>2. CASE x # a
      <4>1. a \in t <=> a \in s
        BY <2>4, <3>2
      <4>2. D(t) = D(s) /\ h[x] = f[x]
        BY <1>0, <2>4, <3>2, <4>1
      <4> HIDE DEF x, t, D
      <4> QED
        BY <4>2
    <3> QED
      BY <3>1, <3>2
  <2>8. D(t) \in Int /\ D(s) \in Int /\ h[x] \in Int
    BY <1>0, <2>4, <2>6
  <2>9. PartSum(h, s) = PartSum(f, s) + D(s)
    <3> HIDE DEF x, t, D
    <3> QED
      BY <2>2, <2>3, <2>5, <2>6, <2>7, <2>8
  <2> QED
    BY <2>1, <2>9
<1>2. PartSum(h, S) = PartSum(f, S) + D(S) /\ Sum(h) = PartSum(h, S) /\ Sum(f) = PartSum(f, S)
  <2> HIDE DEF h
  <2> QED
    BY <1>0, <1>1, PartSums
<1> QED
  BY <1>2, SumType

\* Nothing adds up to nothing.
LEMMA SumOfNone ==
  ASSUME NEW S, IsFiniteSet(S), NEW f \in [S -> Int], \A a \in S : f[a] = 0
  PROVE  Sum(f) = 0
<1>1. \A a \in S : f[a] = f[a] + 1 * f[a]
  OBVIOUS
<1>2. Sum(f) = Sum(f) + 1 * Sum(f)
  BY <1>1, SumLinear
<1> QED
  BY <1>2, SumType

LEMMA SumOfBoth ==
  ASSUME NEW S, IsFiniteSet(S), NEW f \in [S -> Int], NEW g \in [S -> Int], NEW h \in [S -> Int],
         \A a \in S : h[a] = f[a] + g[a]
  PROVE  Sum(h) = Sum(f) + Sum(g)
<1>1. \A a \in S : h[a] = f[a] + 1 * g[a]
  OBVIOUS
<1>2. Sum(h) = Sum(f) + 1 * Sum(g)
  BY <1>1, SumLinear
<1> QED
  BY <1>2, SumType

LEMMA SumOfOne ==
  ASSUME NEW S, IsFiniteSet(S), NEW p \in S, NEW n \in Int
  PROVE  LET f == [a \in S |-> IF a = p THEN n ELSE 0]
         IN f \in [S -> Int] /\ Sum(f) = n
<1> DEFINE zero == [a \in S |-> 0]
           f == [a \in S |-> IF a = p THEN n ELSE 0]
<1>1. f \in [S -> Int] /\ zero \in [S -> Int] /\ f = [zero EXCEPT ![p] = n] /\ zero[p] = 0
  OBVIOUS
<1>2. Sum(zero) = 0
  BY SumOfNone
<1> HIDE DEF f, zero
<1>3. Sum(f) = Sum(zero) + n - zero[p]
  <2>0. zero \in [S -> Int]
    BY <1>1
  <2>1. Sum([zero EXCEPT ![p] = n]) = Sum(zero) + n - zero[p]
    BY <2>0, SumAtPoint, Zenon
  <2>2. f = [zero EXCEPT ![p] = n]
    BY <1>1
  <2> QED
    BY <2>1, <2>2, Zenon
<1> QED
  BY <1>1, <1>2, <1>3 DEF f

-----------------------------------------------------------------------------
(* The vault's accounting. *)

Earned(v, a) == v.shares[a] * (v.perShare - v.paid[a])

LEMMA ClaimableIs ==
  ASSUME NEW v, VaultOK(v), NEW a \in Account
  PROVE /\ Earned(v, a) \in Nat
        /\ Claimable(v, a) = v.accrued[a] + ((v.remainder[a] + Earned(v, a)) \div SCALE)
        /\ Claimable(v, a) \in Nat
        /\ ClaimableRemainder(v, a) \in Nat /\ ClaimableRemainder(v, a) < SCALE
<1> DEFINE e == Earned(v, a)  r == v.remainder[a]
<1>1. /\ v.shares[a] \in Nat /\ v.perShare - v.paid[a] \in Nat /\ r \in Nat
      /\ v.accrued[a] \in Nat
  BY DEF VaultOK, VaultRecords
<1>2. e \in Nat /\ SCALE \in Nat \ {0}
  BY <1>1, VaultAssumption DEF Earned
<1>3. /\ Claimable(v, a) = v.accrued[a] + (e \div SCALE) + ((r + (e % SCALE)) \div SCALE)
      /\ ClaimableRemainder(v, a) = (r + (e % SCALE)) % SCALE
  BY DEF Claimable, ClaimableRemainder, Earned
<1> HIDE DEF e, r
<1>4. /\ (e \div SCALE) + ((r + (e % SCALE)) \div SCALE) = (r + e) \div SCALE
      /\ e \div SCALE \in Nat /\ e % SCALE \in Nat /\ (r + (e % SCALE)) \div SCALE \in Nat
  BY <1>1, <1>2, SplitDivision
<1>5. \A n \in Nat : n % SCALE \in Nat /\ n % SCALE < SCALE
  BY <1>2
<1>6. Claimable(v, a) = v.accrued[a] + ((r + e) \div SCALE) /\ Claimable(v, a) \in Nat
  BY <1>1, <1>3, <1>4
<1>7. ClaimableRemainder(v, a) \in Nat /\ ClaimableRemainder(v, a) < SCALE
  BY <1>1, <1>3, <1>4, <1>5
<1> QED BY <1>2, <1>6, <1>7 DEF e, r

\* A holder brought up to date - with whatever shares from then on - may claim
\* what it could before, and so may everybody else.
UpToDate(v, a, w, new) ==
  /\ w.shares = [v.shares EXCEPT ![a] = new]
  /\ w.paid = [v.paid EXCEPT ![a] = v.perShare]
  /\ w.remainder = [v.remainder EXCEPT ![a] = ClaimableRemainder(v, a)]
  /\ w.accrued = [v.accrued EXCEPT ![a] = Claimable(v, a)]
  /\ w.perShare = v.perShare

LEMMA CheckpointPays ==
  ASSUME NEW v, VaultOK(v), NEW a \in Account, NEW w, w \in VaultRecords, NEW new \in Nat,
         UpToDate(v, a, w, new)
  PROVE VaultOK(w) /\ \A b \in Account : Claimable(w, b) = Claimable(v, b)
<1>1. Claimable(v, a) \in Nat /\ ClaimableRemainder(v, a) \in Nat
      /\ ClaimableRemainder(v, a) < SCALE
  BY ClaimableIs
<1>2. VaultOK(w)
  BY DEF VaultOK, VaultRecords, UpToDate
<1>3. ASSUME NEW b \in Account PROVE Claimable(w, b) = Claimable(v, b)
  <2>1. CASE b # a
    BY <2>1 DEF Claimable, VaultOK, VaultRecords, UpToDate
  <2>2. CASE b = a
    <3>1. /\ w.accrued[a] = Claimable(v, a) /\ w.remainder[a] = ClaimableRemainder(v, a)
          /\ w.perShare - w.paid[a] = 0 /\ w.shares[a] = new
      BY DEF VaultOK, VaultRecords, UpToDate
    <3>2. Earned(w, a) = 0
      BY <3>1 DEF Earned
    <3>3. Claimable(w, a) = w.accrued[a] + ((w.remainder[a] + 0) \div SCALE)
      BY <1>2, <3>2, ClaimableIs
    <3>4. ClaimableRemainder(v, a) \div SCALE = 0
      BY <1>1, VaultAssumption
    <3> QED BY <1>1, <2>2, <3>1, <3>3, <3>4
  <2> QED BY <2>1, <2>2
<1> QED BY <1>2, <1>3

\* What notifyBalanceChange does to the storage of the vault
LEMMA NotifyBalanceIs ==
  ASSUME NEW v, VaultOK(v), NEW a \in Account, NEW balance \in Nat
  PROVE LET w == NotifyBalance(v, a, balance)
            new == SharesFor(a, balance)
        IN /\ w \in VaultRecords /\ new \in Nat /\ UpToDate(v, a, w, new)
           /\ w.tracked = [v.tracked EXCEPT ![a] = balance]
           /\ w.total = v.total + new - v.shares[a]
           /\ w.accounted = v.accounted /\ w.undistributed = v.undistributed
           /\ w.notified = v.notified /\ w.claimed = v.claimed
<1> DEFINE w == NotifyBalance(v, a, balance)
<1>1. SharesFor(a, balance) \in Nat
  BY DEF SharesFor
<1>2. Claimable(v, a) \in Nat /\ ClaimableRemainder(v, a) \in Nat
  BY ClaimableIs
<1> DEFINE c == Checkpoint(v, a)
<1>3. /\ c \in VaultRecords
      /\ c.shares = v.shares /\ c.perShare = v.perShare
      /\ c.paid = [v.paid EXCEPT ![a] = v.perShare]
      /\ c.remainder = [v.remainder EXCEPT ![a] = ClaimableRemainder(v, a)]
      /\ c.accrued = [v.accrued EXCEPT ![a] = Claimable(v, a)]
      /\ c.tracked = v.tracked /\ c.total = v.total
      /\ c.accounted = v.accounted /\ c.undistributed = v.undistributed
      /\ c.notified = v.notified /\ c.claimed = v.claimed
  BY <1>2 DEF Checkpoint, VaultOK, VaultRecords
<1> HIDE DEF c
<1>4. w = [c EXCEPT !.tracked[a] = balance, !.shares[a] = SharesFor(a, balance),
                    !.total = c.total + SharesFor(a, balance) - v.shares[a]]
  BY DEF NotifyBalance, c
<1> HIDE DEF w
<1>5. c.tracked \in [Account -> Nat] /\ v.shares[a] \in Nat /\ c.total \in Int
  BY <1>3 DEF VaultOK, VaultRecords
<1> DEFINE total == c.total + SharesFor(a, balance) - v.shares[a]
<1>6. total \in Int
  BY <1>1, <1>5
<1> HIDE DEF total
<1>7. w = [c EXCEPT !.tracked = [c.tracked EXCEPT ![a] = balance],
                    !.shares = [c.shares EXCEPT ![a] = SharesFor(a, balance)],
                    !.total = total]
  BY <1>3, <1>4 DEF total, VaultRecords
<1>8. /\ [c.tracked EXCEPT ![a] = balance] \in [Account -> Nat]
      /\ [c.shares EXCEPT ![a] = SharesFor(a, balance)] \in [Account -> Nat]
  BY <1>1, <1>3 DEF VaultRecords
<1>9. w \in VaultRecords
  BY <1>3, <1>6, <1>7, <1>8 DEF VaultRecords
<1>10. UpToDate(v, a, w, SharesFor(a, balance))
  BY <1>3, <1>7 DEF UpToDate, VaultRecords
<1>11. /\ w.tracked = [v.tracked EXCEPT ![a] = balance] /\ w.total = total
       /\ w.accounted = v.accounted /\ w.undistributed = v.undistributed
       /\ w.notified = v.notified /\ w.claimed = v.claimed
  BY <1>3, <1>7 DEF VaultRecords
<1> QED BY <1>1, <1>3, <1>9, <1>10, <1>11 DEF w, total

LEMMA NotifyBalancePays ==
  ASSUME NEW v, VaultOK(v), NEW a \in Account, NEW balance \in Nat
  PROVE /\ VaultOK(NotifyBalance(v, a, balance))
        /\ \A b \in Account : Claimable(NotifyBalance(v, a, balance), b) = Claimable(v, b)
<1> DEFINE w == NotifyBalance(v, a, balance)
<1>1. /\ w \in VaultRecords /\ SharesFor(a, balance) \in Nat
      /\ UpToDate(v, a, w, SharesFor(a, balance))
  BY NotifyBalanceIs
<1> HIDE DEF w
<1>2. VaultOK(w) /\ \A b \in Account : Claimable(w, b) = Claimable(v, b)
  BY <1>1, CheckpointPays
<1> QED BY <1>2 DEF w

\* A transfer, reported for both ends, changes nobody's claim.
LEMMA TransferPays ==
  ASSUME NEW v, VaultOK(v), NEW from \in Account, NEW to \in Account,
         NEW t \in [Account -> Nat], NEW amount \in Nat, amount <= t[from]
  PROVE LET u == Transferred(t, from, to, amount)  w == Notified(v, u, from, to)
        IN /\ u \in [Account -> Nat] /\ VaultOK(w)
           /\ \A b \in Account : Claimable(w, b) = Claimable(v, b)
<1> DEFINE u == Transferred(t, from, to, amount)
<1>1. u \in [Account -> Nat]
  BY DEF Transferred
<1> HIDE DEF u
<1>2. u[from] \in Nat /\ u[to] \in Nat
  BY <1>1
<1> DEFINE x == NotifyBalance(v, from, u[from])
<1>3. VaultOK(x) /\ \A b \in Account : Claimable(x, b) = Claimable(v, b)
  BY <1>2, NotifyBalancePays
<1> HIDE DEF x
<1> DEFINE y == NotifyBalance(x, to, u[to])
<1>4. VaultOK(y) /\ \A b \in Account : Claimable(y, b) = Claimable(x, b)
  BY <1>2, <1>3, NotifyBalancePays
<1> HIDE DEF y
<1>5. Notified(v, u, from, to) \in {x, y}
  BY DEF Notified, x, y
<1> QED BY <1>1, <1>3, <1>4, <1>5 DEF u

LEMMA ProductDivided ==
  ASSUME NEW r \in Nat, NEW c \in Nat, NEW total \in Nat \ {0}
  PROVE PerShareDelta(r, c, total).delta \in Nat /\ PerShareDelta(r, c, total).carry \in Nat
<1> DEFINE n == r * SCALE
<1>1. n \in Nat
  BY VaultAssumption
<1>2. \A k \in Nat : k % total \in Nat /\ k % total < total /\ k \div total \in Nat
  OBVIOUS
<1> HIDE DEF n
<1>3. /\ n % total \in Nat /\ n % total < total /\ n \div total \in Nat
      /\ c % total \in Nat /\ c % total < total /\ c \div total \in Nat
  BY <1>1, <1>2
<1> DEFINE product == n % total  rest == c % total  wraps == product >= total - rest
<1>4. PerShareDelta(r, c, total) =
        [delta |-> (n \div total) + (c \div total) + (IF wraps THEN 1 ELSE 0),
         carry |-> IF wraps THEN product - (total - rest) ELSE product + rest]
  BY DEF PerShareDelta, n
<1> QED BY <1>3, <1>4

\* A reward only adds to what everyone may claim.
LEMMA DistributeGrows ==
  ASSUME NEW v, VaultOK(v), v.total > 0, NEW balance \in Int, balance >= v.accounted
  PROVE /\ VaultOK(Distribute(v, balance))
        /\ \A b \in Account : Claimable(Distribute(v, balance), b) >= Claimable(v, b)
<1> DEFINE d == PerShareDelta(balance - v.accounted, v.undistributed, v.total)
           delta == d.delta  carry == d.carry  notified == v.notified + (balance - v.accounted)
           w == Distribute(v, balance)
<1>1. /\ v.total \in Nat \ {0} /\ balance - v.accounted \in Nat /\ v.undistributed \in Nat
      /\ v.perShare \in Nat /\ v.notified \in Int
  BY DEF VaultOK, VaultRecords
<1>2. delta \in Nat /\ carry \in Nat /\ notified \in Int
  BY <1>1, ProductDivided
<1>3. w = [v EXCEPT !.perShare = v.perShare + delta, !.undistributed = carry,
                    !.accounted = balance, !.notified = notified]
  BY DEF Distribute, VaultOK, VaultRecords
<1> HIDE DEF d, w, delta, carry, notified
<1>4. w \in VaultRecords
  <2>1. v \in VaultRecords /\ v.perShare + delta \in Nat
    BY <1>1, <1>2 DEF VaultOK
  <2> QED BY <2>1, <1>2, <1>3 DEF VaultRecords
<1>5. /\ w.perShare = v.perShare + delta
      /\ w.shares = v.shares /\ w.paid = v.paid /\ w.accrued = v.accrued
      /\ w.remainder = v.remainder
  BY <1>3 DEF VaultOK, VaultRecords
<1>6. VaultOK(w)
  BY <1>1, <1>2, <1>4, <1>5 DEF VaultOK, VaultRecords
<1>7. ASSUME NEW b \in Account PROVE Claimable(w, b) >= Claimable(v, b)
  <2> DEFINE f == v.remainder[b] + Earned(v, b)  g == v.remainder[b] + Earned(w, b)
  <2>1. /\ v.shares[b] \in Nat /\ v.remainder[b] \in Nat /\ v.accrued[b] \in Nat
        /\ v.paid[b] \in Nat
    BY DEF VaultOK, VaultRecords
  <2>2. Earned(w, b) = Earned(v, b) + (v.shares[b] * delta)
    BY <1>1, <1>2, <1>5, <2>1 DEF Earned
  <2>3. v.shares[b] * delta \in Nat
    BY <1>2, <2>1
  <2>4. /\ Earned(v, b) \in Nat /\ Earned(w, b) \in Nat
        /\ Claimable(v, b) = v.accrued[b] + (f \div SCALE)
        /\ Claimable(w, b) = v.accrued[b] + (g \div SCALE)
    BY <1>5, <1>6, ClaimableIs
  <2>5. f \in Nat /\ g \in Nat /\ f <= g
    BY <2>1, <2>2, <2>3, <2>4
  <2> HIDE DEF f, g
  <2>6. f \div SCALE <= g \div SCALE /\ f \div SCALE \in Nat /\ g \div SCALE \in Nat
    BY <2>5, DivisionGrows, VaultAssumption
  <2> QED BY <2>1, <2>4, <2>6
<1> QED BY <1>6, <1>7 DEF w

Cleared(v, a) == [Checkpoint(v, a) EXCEPT !.accrued[a] = 0]

\* What a claim pays is what its account could claim; the others keep theirs,
\* whatever runs inside the payment.
LEMMA PaymentPays ==
  ASSUME NEW v, VaultOK(v), token \in [Account -> Nat], NEW a \in People, NEW q,
         NEW after \in Inside(Cleared(v, a), q)
  PROVE /\ Checkpoint(v, a).accrued[a] = Claimable(v, a)
        /\ VaultOK(after[1]) /\ after[2] \in [Account -> Nat]
        /\ \A b \in Account \ {a} : Claimable(after[1], b) = Claimable(v, b)
<1> DEFINE c == Checkpoint(v, a)  z == [c EXCEPT !.accrued[a] = 0]
<1>1. a \in Account /\ People \subseteq Account /\ Payees \subseteq Account
  BY VaultAssumption
<1>2. Claimable(v, a) \in Nat /\ ClaimableRemainder(v, a) \in Nat
  BY <1>1, ClaimableIs
<1>3. /\ c \in VaultRecords
      /\ c.shares = v.shares /\ c.perShare = v.perShare
      /\ c.paid = [v.paid EXCEPT ![a] = v.perShare]
      /\ c.remainder = [v.remainder EXCEPT ![a] = ClaimableRemainder(v, a)]
      /\ c.accrued = [v.accrued EXCEPT ![a] = Claimable(v, a)]
  BY <1>1, <1>2 DEF Checkpoint, VaultOK, VaultRecords
<1>4. c.accrued[a] = Claimable(v, a)
  BY <1>1, <1>3 DEF VaultOK, VaultRecords
<1> HIDE DEF c
<1>5. z = [c EXCEPT !.accrued = [c.accrued EXCEPT ![a] = 0]]
  BY <1>3 DEF VaultRecords
<1> HIDE DEF z
<1>6. /\ z \in VaultRecords
      /\ z.shares = c.shares /\ z.perShare = c.perShare /\ z.paid = c.paid
      /\ z.remainder = c.remainder /\ z.accrued = [c.accrued EXCEPT ![a] = 0]
  BY <1>3, <1>5 DEF VaultRecords
<1>7. VaultOK(z)
  BY <1>1, <1>3, <1>6 DEF VaultOK, VaultRecords
<1>8. \A b \in Account \ {a} : Claimable(z, b) = Claimable(v, b)
  BY <1>1, <1>3, <1>6 DEF Claimable, VaultOK, VaultRecords
<1>9. \/ after = <<z, token>>
      \/ \E p \in People \X Payees :
           after = <<Notified(z, Transferred(token, p[1], p[2], token[p[1]]), p[1], p[2]),
                     Transferred(token, p[1], p[2], token[p[1]])>>
  BY DEF Inside, Guarded, Cleared, z, c
<1>10. /\ VaultOK(after[1]) /\ after[2] \in [Account -> Nat]
       /\ \A b \in Account : Claimable(after[1], b) = Claimable(z, b)
  <2>1. CASE after = <<z, token>>
    BY <2>1, <1>7
  <2>2. ASSUME NEW p \in People \X Payees,
               after = <<Notified(z, Transferred(token, p[1], p[2], token[p[1]]), p[1], p[2]),
                         Transferred(token, p[1], p[2], token[p[1]])>>
        PROVE /\ VaultOK(after[1]) /\ after[2] \in [Account -> Nat]
              /\ \A b \in Account : Claimable(after[1], b) = Claimable(z, b)
    <3>1. p[1] \in Account /\ p[2] \in Account /\ token[p[1]] \in Nat
          /\ token[p[1]] <= token[p[1]]
      BY <1>1
    <3> QED BY <3>1, <2>2, <1>7, TransferPays
  <2> QED BY <1>9, <2>1, <2>2
<1> QED BY <1>4, <1>8, <1>10 DEF c

-----------------------------------------------------------------------------
(* The vault's books: what holders are owed, in fractions of a coin. *)

Owed(v) ==
  [a \in Account |-> SCALE * v.accrued[a] + v.remainder[a]
                       + v.shares[a] * (v.perShare - v.paid[a])]

Balanced(v) ==
  /\ v.notified = v.accounted + v.claimed
  /\ SCALE * v.accounted = v.undistributed + Sum(Owed(v))

\* The shares are those of the balances the vault was told of.
SharesOfTracked(v) ==
  /\ v.shares = [a \in Account |-> SharesFor(a, v.tracked[a])]
  /\ v.total = Sum(v.shares)
  /\ \A a \in Excluded : Claimable(v, a) = 0

SameBooks(v, w) ==
  /\ Owed(w) = Owed(v) /\ w.undistributed = v.undistributed /\ w.accounted = v.accounted
  /\ w.notified = v.notified /\ w.claimed = v.claimed

LEMMA OwedIs ==
  ASSUME NEW v, VaultOK(v)
  PROVE /\ Owed(v) \in [Account -> Int]
        /\ \A a \in Account :
             Owed(v)[a] = SCALE * v.accrued[a] + v.remainder[a] + Earned(v, a)
<1>1. ASSUME NEW a \in Account
      PROVE /\ SCALE * v.accrued[a] \in Nat /\ v.remainder[a] \in Nat /\ Earned(v, a) \in Nat
            /\ SCALE * v.accrued[a] + v.remainder[a] + Earned(v, a) \in Int
  <2>1. v.accrued[a] \in Nat /\ v.remainder[a] \in Nat /\ SCALE \in Nat
    BY VaultAssumption DEF VaultOK, VaultRecords
  <2>2. SCALE * v.accrued[a] \in Nat /\ Earned(v, a) \in Nat
    BY <2>1, ClaimableIs
  <2> QED BY <2>1, <2>2
<1>2. Owed(v) = [a \in Account |-> SCALE * v.accrued[a] + v.remainder[a] + Earned(v, a)]
  BY DEF Owed, Earned
<1> QED BY <1>1, <1>2

\* A checkpoint turns a debt into coins and a remainder, to the last fraction.
LEMMA CheckpointIsExact ==
  ASSUME NEW v, VaultOK(v), NEW a \in Account
  PROVE SCALE * Claimable(v, a) + ClaimableRemainder(v, a) = Owed(v)[a]
<1> DEFINE e == Earned(v, a)  r == v.remainder[a]  c == v.accrued[a]
           q == e \div SCALE  m == e % SCALE  p == (r + m) \div SCALE  t == (r + m) % SCALE
<1>1. e \in Nat /\ r \in Nat /\ c \in Nat /\ SCALE \in Nat \ {0}
  BY ClaimableIs, VaultAssumption DEF VaultOK, VaultRecords
<1>2. Claimable(v, a) = c + q + p /\ ClaimableRemainder(v, a) = t
  BY DEF Claimable, ClaimableRemainder, Earned
<1>3. Owed(v)[a] = SCALE * c + r + e
  BY OwedIs
<1> HIDE DEF e, r, c
<1>4. \A n \in Nat : /\ n = SCALE * (n \div SCALE) + (n % SCALE)
                     /\ n \div SCALE \in Nat /\ n % SCALE \in Nat
  BY <1>1
<1>5. e = SCALE * q + m /\ q \in Nat /\ m \in Nat
  BY <1>1, <1>4
<1>6. r + m = SCALE * p + t /\ p \in Nat /\ t \in Nat
  <2>1. r + m \in Nat
    BY <1>1, <1>5
  <2> QED BY <1>4, <2>1
<1> HIDE DEF q, m, p, t
<1>7. SCALE * (c + q + p) = SCALE * c + SCALE * q + SCALE * p
  BY <1>1, <1>5, <1>6
<1>8. SCALE * c \in Int /\ SCALE * q \in Int /\ SCALE * p \in Int
  BY <1>1, <1>5, <1>6
<1> QED BY <1>1, <1>2, <1>3, <1>5, <1>6, <1>7, <1>8

\* Telling the vault of a balance changes no debt, and the total follows.
LEMMA NotifyBalanceBooks ==
  ASSUME NEW v, VaultOK(v), SharesOfTracked(v), NEW a \in Account, NEW balance \in Nat
  PROVE LET w == NotifyBalance(v, a, balance)
        IN /\ SharesOfTracked(w) /\ SameBooks(v, w)
           /\ w.tracked = [v.tracked EXCEPT ![a] = balance]
<1> DEFINE w == NotifyBalance(v, a, balance)
           new == SharesFor(a, balance)
<1>1. /\ w \in VaultRecords /\ new \in Nat /\ UpToDate(v, a, w, new)
      /\ w.tracked = [v.tracked EXCEPT ![a] = balance]
      /\ w.total = v.total + new - v.shares[a]
      /\ w.accounted = v.accounted /\ w.undistributed = v.undistributed
      /\ w.notified = v.notified /\ w.claimed = v.claimed
  BY NotifyBalanceIs
<1>2. VaultOK(w) /\ \A b \in Account : Claimable(w, b) = Claimable(v, b)
  BY NotifyBalancePays
<1> HIDE DEF w
<1>3. /\ v.shares \in [Account -> Nat] /\ v.tracked \in [Account -> Nat]
      /\ v.accrued \in [Account -> Nat] /\ v.remainder \in [Account -> Nat]
      /\ v.paid \in [Account -> Nat] /\ v.perShare \in Nat /\ v.total \in Int
  BY DEF VaultOK, VaultRecords
<1>4. w.shares = [b \in Account |-> SharesFor(b, w.tracked[b])]
  BY <1>1, <1>3 DEF SharesOfTracked, UpToDate
<1>5. w.total = Sum(w.shares)
  <2>1. v.shares \in [Account -> Int] /\ new \in Int /\ IsFiniteSet(Account)
    BY <1>1, <1>3, VaultAssumption
  <2>2. Sum([v.shares EXCEPT ![a] = new]) = Sum(v.shares) + new - v.shares[a]
    <3> HIDE DEF new
    <3> QED BY <2>1, SumAtPoint
  <2> QED BY <1>1, <2>2 DEF SharesOfTracked, UpToDate
<1>6. SharesOfTracked(w)
  BY <1>2, <1>4, <1>5, VaultAssumption DEF SharesOfTracked
<1>7. ASSUME NEW b \in Account PROVE Owed(w)[b] = Owed(v)[b]
  <2>1. CASE b # a
    <3>1. /\ w.shares[b] = v.shares[b] /\ w.accrued[b] = v.accrued[b] /\ w.paid[b] = v.paid[b]
          /\ w.remainder[b] = v.remainder[b] /\ w.perShare = v.perShare
      BY <1>1, <1>3, <2>1 DEF UpToDate
    <3> QED BY <3>1 DEF Owed
  <2>2. CASE b = a
    <3>1. /\ w.accrued[a] = Claimable(v, a) /\ w.remainder[a] = ClaimableRemainder(v, a)
          /\ w.perShare = v.perShare /\ w.paid[a] = v.perShare /\ w.shares[a] = new
      BY <1>1, <1>3 DEF UpToDate
    <3>2. Earned(w, a) = 0
      <4>1. w.perShare - w.paid[a] = 0
        BY <1>3, <3>1
      <4> QED BY <1>1, <3>1, <4>1 DEF Earned
    <3>3. Owed(w)[a] = SCALE * Claimable(v, a) + ClaimableRemainder(v, a) + 0
      BY <1>2, <3>1, <3>2, OwedIs
    <3>4. SCALE * Claimable(v, a) \in Nat /\ ClaimableRemainder(v, a) \in Nat
      BY ClaimableIs, VaultAssumption
    <3> QED BY <2>2, <3>3, <3>4, CheckpointIsExact
  <2> QED BY <2>1, <2>2
<1>8. Owed(w) = Owed(v)
  BY <1>2, <1>7, OwedIs
<1> QED BY <1>1, <1>6, <1>8 DEF SameBooks, w

\* A transfer leaves the books alone, and the vault knows the balances after it.
LEMMA TransferBooks ==
  ASSUME NEW v, VaultOK(v), SharesOfTracked(v), NEW from \in Account, NEW to \in Account,
         NEW t \in [Account -> Nat], v.tracked = t, NEW amount \in Nat, amount <= t[from]
  PROVE LET u == Transferred(t, from, to, amount)  w == Notified(v, u, from, to)
        IN w.tracked = u /\ SharesOfTracked(w) /\ SameBooks(v, w)
<1> DEFINE u == Transferred(t, from, to, amount)
<1>1. /\ u \in [Account -> Nat]
      /\ \A b \in Account : b = from \/ b = to \/ u[b] = t[b]
      /\ from = to => u = t
  BY DEF Transferred
<1> HIDE DEF u
<1>2. u[from] \in Nat /\ u[to] \in Nat
  BY <1>1
<1> DEFINE x == NotifyBalance(v, from, u[from])
<1>3. /\ VaultOK(x) /\ SharesOfTracked(x) /\ SameBooks(v, x)
      /\ x.tracked = [t EXCEPT ![from] = u[from]]
  BY <1>2, NotifyBalancePays, NotifyBalanceBooks
<1> HIDE DEF x
<1> DEFINE y == NotifyBalance(x, to, u[to])
<1>4. /\ SharesOfTracked(y) /\ SameBooks(x, y)
      /\ y.tracked = [x.tracked EXCEPT ![to] = u[to]]
  <2>1. VaultOK(x) /\ SharesOfTracked(x)
    BY <1>3
  <2> QED BY <1>2, <2>1, NotifyBalanceBooks
<1> HIDE DEF y
<1>5. CASE from = to
  <2>1. Notified(v, u, from, to) = x
    BY <1>5 DEF Notified, x
  <2>2. x.tracked = u
    BY <1>1, <1>3, <1>5
  <2> QED BY <1>3, <2>1, <2>2 DEF u
<1>6. CASE from # to
  <2>1. Notified(v, u, from, to) = y
    BY <1>6 DEF Notified, x, y
  <2>2. y.tracked = u
    BY <1>1, <1>3, <1>4
  <2>3. SameBooks(v, y)
    BY <1>3, <1>4 DEF SameBooks
  <2> QED BY <1>4, <2>1, <2>2, <2>3 DEF u
<1> QED BY <1>5, <1>6

\* What is spread and the carry it leaves are what arrived and the carry before.
LEMMA DeltaIsExact ==
  ASSUME NEW r \in Nat, NEW c \in Nat, NEW total \in Nat \ {0}
  PROVE LET d == PerShareDelta(r, c, total) IN r * SCALE + c = d.delta * total + d.carry
<1> DEFINE n == r * SCALE
<1>1. n \in Nat
  BY VaultAssumption
<1>2. \A k \in Nat : /\ k = total * (k \div total) + (k % total)
                     /\ k % total \in Nat /\ k % total < total /\ k \div total \in Nat
  OBVIOUS
<1> HIDE DEF n
<1> DEFINE product == n % total  rest == c % total  wraps == product >= total - rest
           p == n \div total  q == c \div total
<1>3. /\ n = total * p + product /\ product \in Nat /\ p \in Nat
      /\ c = total * q + rest /\ rest \in Nat /\ q \in Nat
  BY <1>1, <1>2
<1>4. PerShareDelta(r, c, total) =
        [delta |-> p + q + (IF wraps THEN 1 ELSE 0),
         carry |-> IF wraps THEN product - (total - rest) ELSE product + rest]
  BY DEF PerShareDelta, n
<1> DEFINE d == PerShareDelta(r, c, total)
<1>5. /\ d.delta = p + q + (IF wraps THEN 1 ELSE 0)
      /\ d.carry = IF wraps THEN product - (total - rest) ELSE product + rest
  BY <1>4
<1> HIDE DEF d, product, rest, p, q
<1>6. /\ total * p \in Int /\ total * q \in Int
      /\ (p + q) * total = total * p + total * q
      /\ (p + q + 1) * total = total * p + total * q + total
      /\ (p + q + 0) * total = total * p + total * q
  BY <1>3
<1>7. n + c = d.delta * total + d.carry
  <2>1. CASE wraps
    BY <1>3, <1>5, <1>6, <2>1
  <2>2. CASE ~wraps
    BY <1>3, <1>5, <1>6, <2>2
  <2> QED BY <2>1, <2>2
<1> QED BY <1>7 DEF n, d

\* A reward is spread over the shares, or carried: the books stay balanced.
LEMMA DistributeBooks ==
  ASSUME NEW v, VaultOK(v), SharesOfTracked(v), Balanced(v), v.total > 0,
         NEW balance \in Int, balance >= v.accounted
  PROVE LET w == Distribute(v, balance)
        IN /\ SharesOfTracked(w) /\ Balanced(w)
           /\ w.tracked = v.tracked /\ w.accounted = balance
<1> DEFINE received == balance - v.accounted
           d == PerShareDelta(received, v.undistributed, v.total)
           delta == d.delta  carry == d.carry  notified == v.notified + received
           w == Distribute(v, balance)
<1>1. /\ v.total \in Nat \ {0} /\ received \in Nat /\ v.undistributed \in Nat
      /\ v.perShare \in Nat /\ v.notified \in Int /\ v.accounted \in Int /\ v.claimed \in Int
  BY DEF VaultOK, VaultRecords
<1>2. delta \in Nat /\ carry \in Nat /\ notified \in Int
  BY <1>1, ProductDivided
<1>3. received * SCALE + v.undistributed = delta * v.total + carry
  BY <1>1, DeltaIsExact
<1>4. w = [v EXCEPT !.perShare = v.perShare + delta, !.undistributed = carry,
                    !.accounted = balance, !.notified = notified]
  BY DEF Distribute, VaultOK, VaultRecords
<1>5. VaultOK(w)
  BY DistributeGrows
<1> HIDE DEF d, w, delta, carry, notified
<1>6. /\ w.perShare = v.perShare + delta /\ w.undistributed = carry /\ w.accounted = balance
      /\ w.notified = notified /\ w.claimed = v.claimed /\ w.total = v.total
      /\ w.shares = v.shares /\ w.paid = v.paid /\ w.accrued = v.accrued
      /\ w.remainder = v.remainder /\ w.tracked = v.tracked
  BY <1>4 DEF VaultOK, VaultRecords
<1>7. ASSUME NEW a \in Account PROVE Earned(w, a) = Earned(v, a) + delta * v.shares[a]
  <2>1. v.shares[a] \in Nat /\ v.paid[a] \in Nat
    BY DEF VaultOK, VaultRecords
  <2> QED BY <1>1, <1>2, <1>6, <2>1 DEF Earned
<1>8. v.shares \in [Account -> Int] /\ IsFiniteSet(Account) /\ SCALE \in Nat \ {0}
  BY VaultAssumption DEF VaultOK, VaultRecords
<1>9. Sum(Owed(w)) = Sum(Owed(v)) + delta * Sum(v.shares)
  <2>1. ASSUME NEW a \in Account PROVE Owed(w)[a] = Owed(v)[a] + delta * v.shares[a]
    <3>1. SCALE * v.accrued[a] \in Int /\ v.remainder[a] \in Int /\ delta * v.shares[a] \in Int
          /\ Earned(v, a) \in Int
      <4>1. v.accrued[a] \in Nat /\ v.remainder[a] \in Nat /\ v.shares[a] \in Nat
        BY DEF VaultOK, VaultRecords
      <4> QED BY <1>2, <1>8, <4>1, ClaimableIs
    <3>2. /\ Owed(w)[a] = SCALE * v.accrued[a] + v.remainder[a] + Earned(w, a)
          /\ Owed(v)[a] = SCALE * v.accrued[a] + v.remainder[a] + Earned(v, a)
      BY <1>5, <1>6, OwedIs
    <3> DEFINE c == SCALE * v.accrued[a]  r == v.remainder[a]  e == Earned(v, a)
               g == delta * v.shares[a]
    <3>3. c + r + (e + g) = (c + r + e) + g
      <4>1. c \in Int /\ r \in Int /\ e \in Int /\ g \in Int
        BY <3>1
      <4> HIDE DEF c, r, e, g
      <4> QED BY <4>1
    <3>4. Owed(w)[a] = c + r + Earned(w, a) /\ Owed(v)[a] = c + r + e /\ Earned(w, a) = e + g
      BY <1>7, <3>2
    <3>5. Owed(w)[a] = Owed(v)[a] + g
      <4> HIDE DEF c, r, e, g
      <4> QED BY <3>3, <3>4
    <3> QED BY <3>5
  <2>2. Owed(v) \in [Account -> Int] /\ Owed(w) \in [Account -> Int]
    BY <1>5, OwedIs
  <2> DEFINE f == Owed(v)  g == v.shares  h == Owed(w)
  <2>3. /\ f \in [Account -> Int] /\ g \in [Account -> Int] /\ h \in [Account -> Int]
        /\ delta \in Int /\ \A a \in Account : h[a] = f[a] + delta * g[a]
    BY <1>2, <1>8, <2>1, <2>2
  <2> HIDE DEF f, g, h
  <2>4. Sum(h) = Sum(f) + delta * Sum(g)
    BY <1>8, <2>3, SumLinear
  <2> QED BY <2>4 DEF f, g, h
<1>10. Balanced(w)
  <2>1. SCALE * balance = SCALE * v.accounted + received * SCALE
    BY <1>1, <1>8
  <2>2. Sum(Owed(v)) \in Int
    BY <1>8, OwedIs, SumType
  <2>3. delta * v.total \in Int /\ received * SCALE \in Int /\ SCALE * v.accounted \in Int
    BY <1>1, <1>2, <1>8
  <2>4. SCALE * balance = carry + (Sum(Owed(v)) + delta * v.total)
    <3> HIDE DEF received
    <3> QED BY <1>1, <1>2, <1>3, <2>1, <2>2, <2>3 DEF Balanced
  <2>5. notified = balance + v.claimed
    BY <1>1 DEF notified, Balanced
  <2> QED BY <1>6, <1>9, <2>4, <2>5 DEF Balanced, SharesOfTracked
<1>11. ASSUME NEW a \in Excluded PROVE Claimable(w, a) = 0
  <2>1. a \in Account /\ v.shares[a] = 0
    BY VaultAssumption DEF SharesOfTracked, SharesFor
  <2>2. Earned(w, a) = Earned(v, a)
    BY <1>2, <1>7, <2>1, ClaimableIs
  <2>3. Claimable(w, a) = Claimable(v, a)
    BY <1>5, <1>6, <2>1, <2>2, ClaimableIs
  <2> QED BY <2>3 DEF SharesOfTracked
<1> QED BY <1>6, <1>10, <1>11 DEF SharesOfTracked, w

\* A payment takes what it pays off the books, whatever transfer runs inside it.
LEMMA ClearedBooks ==
  ASSUME NEW v, VaultOK(v), SharesOfTracked(v), NEW a \in Account, Claimable(v, a) > 0
  PROVE LET z == Cleared(v, a)
        IN /\ VaultOK(z) /\ SharesOfTracked(z) /\ z.tracked = v.tracked
           /\ z.undistributed = v.undistributed /\ z.accounted = v.accounted
           /\ z.notified = v.notified /\ z.claimed = v.claimed
           /\ Sum(Owed(z)) = Sum(Owed(v)) - SCALE * Claimable(v, a)
<1> DEFINE z == Cleared(v, a)
           paid == SCALE * Claimable(v, a)
<1>1. Claimable(v, a) \in Nat /\ ClaimableRemainder(v, a) \in Nat /\ paid \in Nat
  BY ClaimableIs, VaultAssumption
<1>2. /\ v.shares \in [Account -> Nat] /\ v.tracked \in [Account -> Nat]
      /\ v.accrued \in [Account -> Nat] /\ v.remainder \in [Account -> Nat]
      /\ v.paid \in [Account -> Nat] /\ v.perShare \in Nat
      /\ \A b \in Account : v.paid[b] <= v.perShare
  BY DEF VaultOK, VaultRecords
<1>3. z = [v EXCEPT !.accrued = [v.accrued EXCEPT ![a] = 0],
                    !.remainder = [v.remainder EXCEPT ![a] = ClaimableRemainder(v, a)],
                    !.paid = [v.paid EXCEPT ![a] = v.perShare]]
  BY <1>2 DEF Cleared, Checkpoint, VaultOK, VaultRecords
<1> HIDE DEF z
<1>4. /\ z \in VaultRecords
      /\ z.shares = v.shares /\ z.perShare = v.perShare /\ z.tracked = v.tracked
      /\ z.total = v.total /\ z.undistributed = v.undistributed
      /\ z.accounted = v.accounted /\ z.notified = v.notified /\ z.claimed = v.claimed
      /\ z.accrued = [v.accrued EXCEPT ![a] = 0]
      /\ z.remainder = [v.remainder EXCEPT ![a] = ClaimableRemainder(v, a)]
      /\ z.paid = [v.paid EXCEPT ![a] = v.perShare]
  BY <1>1, <1>2, <1>3 DEF VaultOK, VaultRecords
<1>5. VaultOK(z)
  BY <1>2, <1>4 DEF VaultOK
<1>6. ASSUME NEW b \in Account, b # a
      PROVE Earned(z, b) = Earned(v, b) /\ Claimable(z, b) = Claimable(v, b)
            /\ Owed(z)[b] = Owed(v)[b]
  <2>1. /\ z.shares[b] = v.shares[b] /\ z.perShare = v.perShare /\ z.paid[b] = v.paid[b]
        /\ z.accrued[b] = v.accrued[b] /\ z.remainder[b] = v.remainder[b]
    BY <1>2, <1>4, <1>6
  <2> QED BY <2>1 DEF Earned, Claimable, Owed
<1>7. Owed(z)[a] = Owed(v)[a] - paid
  <2>1. z.accrued[a] = 0 /\ z.remainder[a] = ClaimableRemainder(v, a) /\ Earned(z, a) = 0
    <3>1. z.perShare - z.paid[a] = 0 /\ z.shares[a] \in Nat
      BY <1>2, <1>4
    <3> QED BY <1>2, <1>4, <3>1 DEF Earned
  <2>2. Owed(z)[a] = SCALE * 0 + ClaimableRemainder(v, a) + 0
    BY <1>5, <2>1, OwedIs
  <2>3. SCALE * 0 = 0
    BY VaultAssumption
  <2> QED BY <1>1, <2>2, <2>3, CheckpointIsExact
<1>8. Sum(Owed(z)) = Sum(Owed(v)) - paid
  <2>1. Owed(v) \in [Account -> Int] /\ Owed(z) \in [Account -> Int] /\ IsFiniteSet(Account)
    BY <1>5, OwedIs, VaultAssumption
  <2> DEFINE f == Owed(v)  h == Owed(z)  n == f[a] - paid
  <2>2. f \in [Account -> Int] /\ n \in Int /\ h = [f EXCEPT ![a] = n]
    BY <1>1, <1>6, <1>7, <2>1
  <2>3. f[a] \in Int /\ n = f[a] - paid
    BY <2>1
  <2> HIDE DEF f, h, n, paid
  <2>4. f \in [Account -> Int] /\ n \in Int
    BY <2>2
  <2>5. Sum([f EXCEPT ![a] = n]) = Sum(f) + n - f[a]
    BY <2>1, <2>4, SumAtPoint, Zenon
  <2>6. h = [f EXCEPT ![a] = n]
    BY <2>2
  <2>7. Sum(h) = Sum(f) + n - f[a]
    BY <2>5, <2>6, Zenon
  <2>8. Sum(f) \in Int
    BY <2>1, <2>4, SumType
  <2> QED BY <1>1, <2>3, <2>7, <2>8 DEF f, h
<1>9. SharesOfTracked(z)
  <2>1. \A b \in Excluded : b \in Account /\ b # a
    BY VaultAssumption DEF SharesOfTracked
  <2> QED BY <1>4, <1>6, <2>1 DEF SharesOfTracked
<1> QED BY <1>4, <1>5, <1>8, <1>9 DEF z

LEMMA PaymentBooks ==
  ASSUME NEW v, VaultOK(v), SharesOfTracked(v), Balanced(v),
         token \in [Account -> Nat], v.tracked = token,
         NEW a \in People, Claimable(v, a) > 0, NEW q,
         NEW after \in Inside(Cleared(v, a), q)
  PROVE LET w == [after[1] EXCEPT !.accounted = v.accounted - Claimable(v, a),
                                  !.claimed = after[1].claimed + Claimable(v, a)]
        IN /\ SharesOfTracked(w) /\ Balanced(w) /\ w.tracked = after[2]
           /\ w.accounted = v.accounted - Claimable(v, a)
           /\ \A b \in Account \ People : after[2][b] >= token[b]
<1> DEFINE z == Cleared(v, a)  x == after[1]  amount == Claimable(v, a)
           rest == v.accounted - amount  claimed == x.claimed + amount
           w == [x EXCEPT !.accounted = rest, !.claimed = claimed]
<1>1. a \in Account /\ People \subseteq Account /\ Payees \subseteq Account
  BY VaultAssumption
<1>2. /\ VaultOK(z) /\ SharesOfTracked(z) /\ z.tracked = token
      /\ z.undistributed = v.undistributed /\ z.accounted = v.accounted
      /\ z.notified = v.notified /\ z.claimed = v.claimed
      /\ Sum(Owed(z)) = Sum(Owed(v)) - SCALE * amount
  BY <1>1, ClearedBooks
<1>3. \/ after = <<z, token>>
      \/ \E p \in People \X Payees :
           after = <<Notified(z, Transferred(token, p[1], p[2], token[p[1]]), p[1], p[2]),
                     Transferred(token, p[1], p[2], token[p[1]])>>
  BY DEF Inside, Guarded
<1> HIDE DEF z
<1>4. /\ VaultOK(x) /\ SharesOfTracked(x) /\ SameBooks(z, x) /\ x.tracked = after[2]
      /\ \A b \in Account \ People : after[2][b] >= token[b]
  <2>1. CASE after = <<z, token>>
    BY <1>2, <2>1 DEF SameBooks
  <2>2. ASSUME NEW p \in People \X Payees,
               after = <<Notified(z, Transferred(token, p[1], p[2], token[p[1]]), p[1], p[2]),
                         Transferred(token, p[1], p[2], token[p[1]])>>
        PROVE /\ VaultOK(x) /\ SharesOfTracked(x) /\ SameBooks(z, x) /\ x.tracked = after[2]
              /\ \A b \in Account \ People : after[2][b] >= token[b]
    <3> DEFINE from == p[1]  to == p[2]  all == token[from]
    <3>1. /\ from \in People /\ from \in Account /\ to \in Account /\ all \in Nat
          /\ all <= token[from]
      BY <1>1
    <3>2. x = Notified(z, after[2], from, to) /\ after[2] = Transferred(token, from, to, all)
      BY <2>2
    <3> HIDE DEF from, to, all
    <3>3. VaultOK(x)
      BY <1>2, <3>1, <3>2, TransferPays
    <3>4. SharesOfTracked(x) /\ SameBooks(z, x) /\ x.tracked = after[2]
      BY <1>2, <3>1, <3>2, TransferBooks
    <3>5. \A b \in Account \ People : after[2][b] >= token[b]
      BY <3>1, <3>2 DEF Transferred
    <3> QED BY <3>3, <3>4, <3>5
  <2> QED BY <1>3, <2>1, <2>2
<1>5. rest \in Int /\ claimed \in Int /\ amount \in Nat /\ v.accounted \in Int /\ v.claimed \in Int
      /\ v.notified \in Int /\ v.undistributed \in Nat /\ x.claimed = v.claimed
  BY <1>1, <1>2, <1>4, ClaimableIs DEF VaultOK, VaultRecords, SameBooks
<1> HIDE DEF x
<1>6. rest = v.accounted - amount /\ claimed = v.claimed + amount
  BY <1>5
<1> HIDE DEF rest, claimed
<1>7. /\ w.accounted = rest /\ w.claimed = claimed /\ w.notified = v.notified
      /\ w.undistributed = v.undistributed /\ w.tracked = x.tracked /\ w.shares = x.shares
      /\ w.total = x.total /\ w.perShare = x.perShare /\ w.paid = x.paid
      /\ w.accrued = x.accrued /\ w.remainder = x.remainder
  BY <1>2, <1>4 DEF VaultOK, VaultRecords, SameBooks
<1> HIDE DEF w
<1>8. SharesOfTracked(w)
  BY <1>4, <1>7 DEF SharesOfTracked, Claimable
<1>9. Owed(w) = Owed(z)
  <2>1. Owed(w) = Owed(x)
    BY <1>7 DEF Owed
  <2> QED BY <1>4, <2>1 DEF SameBooks
<1>10. Balanced(w)
  <2>1. v.notified = rest + claimed
    BY <1>5, <1>6 DEF Balanced
  <2>2. SCALE * rest = SCALE * v.accounted - SCALE * amount
    BY <1>5, <1>6, VaultAssumption
  <2>3. Sum(Owed(v)) \in Int /\ SCALE * v.accounted \in Int /\ SCALE * amount \in Int
    <3>1. IsFiniteSet(Account) /\ Owed(v) \in [Account -> Int]
      BY VaultAssumption, OwedIs
    <3>2. Sum(Owed(v)) \in Int
      BY <3>1, SumType
    <3> QED BY <1>5, <3>2, VaultAssumption
  <2>4. SCALE * v.accounted = v.undistributed + Sum(Owed(v))
    BY DEF Balanced
  <2>5. SCALE * rest = v.undistributed + Sum(Owed(z))
    BY <1>2, <1>5, <2>2, <2>3, <2>4
  <2> QED BY <1>7, <1>9, <2>1, <2>5 DEF Balanced
<1> QED BY <1>4, <1>6, <1>7, <1>8, <1>10 DEF w, x, rest, claimed

-----------------------------------------------------------------------------
(* The market's steps. *)

MarketStates == {"Uninitialized", "Trading", "GraduationReady", "Graduated"}

MarketRecords ==
  [state : MarketStates, quoteReserve : Nat, tokenReserve : Nat,
   feeReserve : Int, taken : BOOLEAN, claimable : [Account -> Int]]

CurveTypes ==
  /\ token \in [Account -> Nat] /\ quote \in [Account -> Int]
  /\ VaultOK(vault)
  /\ terms \in Terms
  /\ market \in MarketRecords

LEMMA FeesAreWhole ==
  ASSUME terms \in Terms, NEW gross \in Nat
  PROVE FeeAmount(gross) \in Nat /\ CreatorCut(gross) \in Nat /\ RewardCut(gross) \in Nat
<1>1. /\ terms.swapFee \in Nat /\ terms.rewardFee \in Nat /\ PlatformFee \in Nat
      /\ BPS \in Nat \ {0}
  BY MarketAssumption, FeePolicyAssumption
<1>2. HookFee(terms) \in Nat
  BY <1>1 DEF HookFee
<1>3. \A f \in Nat : gross * f \in Nat
  OBVIOUS
<1>4. FeeAmount(gross) \in Nat
  BY <1>1, <1>2, <1>3, CeilCovers DEF FeeAmount
<1>5. \A n \in Nat : n \div BPS \in Nat
  BY <1>1
<1> QED BY <1>1, <1>3, <1>4, <1>5 DEF CreatorCut, RewardCut

\* Fees are added up beside the reserves.
LEMMA AccrueKeeps ==
  ASSUME terms \in Terms, NEW gross \in Nat, NEW n \in MarketRecords
  PROVE LET m == AccrueFees(n, gross)
        IN /\ m \in MarketRecords /\ m.quoteReserve = n.quoteReserve
           /\ m.tokenReserve = n.tokenReserve /\ m.state = n.state /\ m.taken = n.taken
           /\ m.feeReserve = n.feeReserve + FeeAmount(gross)
           /\ Sum(m.claimable) = Sum(n.claimable) + FeeAmount(gross)
<1> DEFINE platform == FeeAmount(gross) - CreatorCut(gross) - RewardCut(gross)
           claims == [a \in Account |->
             n.claimable[a] + (IF a = Platform THEN platform ELSE 0)
                            + (IF a = Creator THEN CreatorCut(gross) ELSE 0)
                            + (IF a = Hook THEN RewardCut(gross) ELSE 0)]
           feeAfter == n.feeReserve + FeeAmount(gross)
           m == AccrueFees(n, gross)
<1>1. FeeAmount(gross) \in Nat /\ CreatorCut(gross) \in Nat /\ RewardCut(gross) \in Nat
  BY FeesAreWhole
<1>2. platform \in Int
  BY <1>1
<1> HIDE DEF platform
<1>3. claims \in [Account -> Int] /\ feeAfter \in Int
  BY <1>1, <1>2 DEF MarketRecords
<1>6. Sum(claims) = Sum(n.claimable) + FeeAmount(gross)
  <2> DEFINE f == n.claimable
             p == [a \in Account |-> IF a = Platform THEN platform ELSE 0]
             c == [a \in Account |-> IF a = Creator THEN CreatorCut(gross) ELSE 0]
             r == [a \in Account |-> IF a = Hook THEN RewardCut(gross) ELSE 0]
             fp == [a \in Account |-> f[a] + p[a]]
             fpc == [a \in Account |-> fp[a] + c[a]]
  <2>1. f \in [Account -> Int] /\ IsFiniteSet(Account) /\ {Platform, Creator, Hook} \subseteq Account
    BY VaultAssumption, MarketAssumption DEF MarketRecords
  <2>2. /\ p \in [Account -> Int] /\ Sum(p) = platform
        /\ c \in [Account -> Int] /\ Sum(c) = CreatorCut(gross)
        /\ r \in [Account -> Int] /\ Sum(r) = RewardCut(gross)
    BY <1>1, <1>2, <2>1, SumOfOne
  <2>3. /\ claims \in [Account -> Int]
        /\ \A a \in Account : claims[a] = f[a] + p[a] + c[a] + r[a]
    BY <1>3
  <2> HIDE DEF f, p, c, r, claims
  <2>4. fp \in [Account -> Int] /\ \A a \in Account : fp[a] = f[a] + p[a]
    BY <2>1, <2>2
  <2>5. Sum(fp) = Sum(f) + Sum(p)
    BY <2>1, <2>2, <2>4, SumOfBoth
  <2> HIDE DEF fp
  <2>6. fpc \in [Account -> Int] /\ \A a \in Account : fpc[a] = fp[a] + c[a]
    BY <2>2, <2>4
  <2>7. Sum(fpc) = Sum(fp) + Sum(c)
    BY <2>1, <2>2, <2>4, <2>6, SumOfBoth
  <2> HIDE DEF fpc
  <2>8. \A a \in Account : claims[a] = fpc[a] + r[a]
    BY <2>3, <2>4, <2>6
  <2>9. Sum(claims) = Sum(fpc) + Sum(r)
    BY <2>1, <2>2, <2>3, <2>6, <2>8, SumOfBoth
  <2>10. Sum(f) \in Int
    BY <2>1, SumType
  <2>11. platform + CreatorCut(gross) + RewardCut(gross) = FeeAmount(gross)
    BY <1>1 DEF platform
  <2>12. Sum(claims) = Sum(f) + (platform + CreatorCut(gross) + RewardCut(gross))
    BY <1>1, <1>2, <2>2, <2>5, <2>7, <2>9, <2>10
  <2> QED BY <2>11, <2>12 DEF f
<1> HIDE DEF feeAfter
<1>4. m = [n EXCEPT !.claimable = claims, !.feeReserve = feeAfter]
  BY DEF AccrueFees, platform, feeAfter, MarketRecords
<1> HIDE DEF claims, m
<1>5. /\ m \in MarketRecords /\ m.quoteReserve = n.quoteReserve
      /\ m.tokenReserve = n.tokenReserve /\ m.state = n.state /\ m.taken = n.taken
      /\ m.feeReserve = feeAfter /\ m.claimable = claims
  BY <1>3, <1>4 DEF MarketRecords
<1> QED BY <1>5, <1>6 DEF m, feeAfter

LEMMA PaysIs ==
  ASSUME CurveTypes, NEW from \in Account, NEW to \in Account, NEW amount \in Nat,
         Pays(from, to, amount)
  PROVE /\ token' \in [Account -> Nat] /\ VaultOK(vault')
        /\ \A b \in Account : Claimable(vault, b)' = Claimable(vault, b)
<1>1. amount <= token[from]
  BY DEF Pays, CanTransfer
<1>2. /\ token' = Transferred(token, from, to, amount)
      /\ vault' = Notified(vault, Transferred(token, from, to, amount), from, to)
  BY DEF Pays
<1>3. /\ token' \in [Account -> Nat] /\ VaultOK(vault')
      /\ \A b \in Account : Claimable(vault', b) = Claimable(vault, b)
  BY <1>1, <1>2, TransferPays DEF CurveTypes
<1>4. \A b \in Account : Claimable(vault, b)' = Claimable(vault', b)
  BY DEF Claimable
<1> QED BY <1>3, <1>4

LEMMA MoveKeepsType ==
  ASSUME NEW q \in [Account -> Int], NEW from \in Account, NEW to \in Account,
         NEW amount \in Int, NEW tax \in Int
  PROVE Move(q, from, to, amount, tax) \in [Account -> Int]
<1>1. Lesser(tax, amount) \in Int
  BY DEF Lesser
<1> QED BY <1>1 DEF Move

\* Only the account that pays loses coins.
LEMMA MoveTakesFromOne ==
  ASSUME NEW q \in [Account -> Int], NEW from \in Account, NEW to \in Account,
         NEW amount \in Nat, NEW tax \in Nat
  PROVE /\ \A b \in Account \ {from} : Move(q, from, to, amount, tax)[b] >= q[b]
        /\ \A b \in Account \ {from, to} : Move(q, from, to, amount, tax)[b] = q[b]
        /\ from # to => Move(q, from, to, amount, tax)[from] = q[from] - amount
<1>1. Lesser(tax, amount) \in Nat /\ Lesser(tax, amount) <= amount
  BY DEF Lesser
<1> QED BY <1>1 DEF Move

LEMMA ProductCovered ==
  ASSUME NEW x \in Nat, NEW y \in Nat, NEW d \in Nat \ {0}
  PROVE ReserveAfter(x, y, d) \in Nat /\ ReserveAfter(x, y, d) * d >= x * y
<1>1. x * y \in Nat
  OBVIOUS
<1> QED BY <1>1, CeilCovers DEF ReserveAfter

\* What GraduationFunded rests on: until it opens, the market has no quote.
Settled(m) ==
  /\ m.state = "Uninitialized" => m.quoteReserve = 0
  /\ m.state \in {"GraduationReady", "Graduated"} /\ ~m.taken => m.quoteReserve >= Threshold
  /\ m.state = "Trading" => m.quoteReserve < Threshold
  /\ m.taken => m.state = "Graduated" /\ m.quoteReserve = 0

CurveInv == CurveTypes /\ Settled(market)

Product(m) == Price(m) * m.tokenReserve

FeesAddUp(m) == m.feeReserve = Sum(m.claimable)

\* A purchase: the tokens leave at a price that covers them, the claims stay.
LEMMA PurchaseKeeps ==
  ASSUME CurveInv, NEW who \in Account, NEW gross \in Nat, NEW coins,
         EnsureTrading(market), ExecuteBuy(who, gross, coins)
  PROVE /\ token' \in [Account -> Nat] /\ VaultOK(vault')
        /\ \A b \in Account : Claimable(vault, b)' = Claimable(vault, b)
        /\ market' \in MarketRecords
        /\ Settled(market') /\ Product(market') >= Product(market)
        /\ \E out \in Nat : Pays(Market, who, out)
        /\ coins[Market] >= Accounted(market') /\ token'[Market] >= market'.tokenReserve
        /\ FeesAddUp(market) => FeesAddUp(market')
<1> DEFINE q == QuoteBuy(market, gross)
           net == gross - FeeAmount(gross)
           base == Price(market)
           after == ReserveAfter(base, market.tokenReserve, base + net)
<1>1. /\ market.quoteReserve \in Nat /\ market.tokenReserve \in Nat /\ Market \in Account
      /\ base \in Nat \ {0} /\ base = Virtual + market.quoteReserve /\ Threshold \in Nat
      /\ market.feeReserve \in Int /\ market.taken \in BOOLEAN
      /\ market.claimable \in [Account -> Int]
  BY MarketAssumption DEF CurveInv, CurveTypes, MarketRecords, Price
<1>2. /\ FeeAmount(gross) \in Nat /\ net \in Int
  BY FeesAreWhole DEF CurveInv, CurveTypes
<1>3. /\ q.net = net /\ q.tokenReserve = after
      /\ q.out = IF net > 0 /\ after < market.tokenReserve THEN market.tokenReserve - after ELSE 0
      /\ q.out > 0
  BY DEF QuoteBuy, ExecuteBuy
<1> HIDE DEF q, net, base
<1>4. net \in Nat /\ net > 0 /\ q.out = market.tokenReserve - after /\ base + net \in Nat \ {0}
  BY <1>1, <1>2, <1>3
<1>5. after \in Nat /\ after * (base + net) >= base * market.tokenReserve
  BY <1>1, <1>4, ProductCovered
<1> HIDE DEF after
<1>6. q.out \in Nat /\ Pays(Market, who, q.out)
  BY <1>1, <1>3, <1>4, <1>5 DEF ExecuteBuy, q
<1>7. /\ token' \in [Account -> Nat] /\ VaultOK(vault')
      /\ \A b \in Account : Claimable(vault, b)' = Claimable(vault, b)
  BY <1>1, <1>6, PaysIs DEF CurveInv
<1> DEFINE m == AccrueFees([market EXCEPT !.quoteReserve = @ + q.net,
                                          !.tokenReserve = q.tokenReserve], gross)
<1>8. /\ m \in MarketRecords
      /\ m.quoteReserve = market.quoteReserve + net /\ m.tokenReserve = after
      /\ m.state = "Trading" /\ m.taken = market.taken
      /\ FeesAddUp(market) => FeesAddUp(m)
  <2> DEFINE quoteAfter == market.quoteReserve + net
             n == [market EXCEPT !.quoteReserve = quoteAfter, !.tokenReserve = after]
  <2>1. quoteAfter \in Nat
    BY <1>1, <1>4
  <2> HIDE DEF quoteAfter
  <2>2. /\ n.state = "Trading" /\ n.quoteReserve = quoteAfter /\ n.tokenReserve = after
        /\ n.taken = market.taken /\ n \in MarketRecords
        /\ n.feeReserve = market.feeReserve /\ n.claimable = market.claimable
    BY <1>5, <2>1 DEF EnsureTrading, CurveInv, CurveTypes, MarketRecords
  <2>3. m = AccrueFees(n, gross)
    BY <1>3 DEF quoteAfter
  <2> HIDE DEF m, n
  <2> QED BY <2>2, <2>3, AccrueKeeps DEF quoteAfter, CurveInv, CurveTypes, FeesAddUp
<1>9. market' = [m EXCEPT !.state = IF m.quoteReserve >= Threshold
                                      THEN "GraduationReady" ELSE m.state]
  BY DEF ExecuteBuy, q
<1>14. token'[Market] >= m.tokenReserve /\ coins[Market] >= Accounted(m)
  BY DEF ExecuteBuy, q
<1> HIDE DEF m
<1>10. /\ market' \in MarketRecords
       /\ market'.quoteReserve = market.quoteReserve + net /\ market'.tokenReserve = after
       /\ market'.taken = market.taken
       /\ market'.state = IF market'.quoteReserve >= Threshold
                            THEN "GraduationReady" ELSE "Trading"
  BY <1>8, <1>9 DEF MarketStates, MarketRecords
<1>15. /\ market'.quoteReserve = m.quoteReserve /\ market'.feeReserve = m.feeReserve
       /\ market'.tokenReserve = m.tokenReserve /\ market'.claimable = m.claimable
  BY <1>8, <1>9 DEF MarketRecords
<1>16. /\ coins[Market] >= Accounted(market') /\ token'[Market] >= market'.tokenReserve
       /\ FeesAddUp(market) => FeesAddUp(market')
  BY <1>8, <1>14, <1>15 DEF Accounted, FeesAddUp
<1>11. Settled(market')
  BY <1>1, <1>4, <1>10 DEF Settled, EnsureTrading, CurveInv
<1>12. Price(market') = base + net
  BY <1>1, <1>4, <1>10, MarketAssumption DEF Price
<1>13. Product(market') >= Product(market)
  <2>1. after * (base + net) = (base + net) * after
    BY <1>1, <1>4, <1>5
  <2> QED BY <1>5, <1>10, <1>12, <2>1 DEF Product, base
<1> QED BY <1>6, <1>7, <1>10, <1>11, <1>13, <1>16

\* A sale: its price rounds up what the market keeps.
LEMMA SaleKeeps ==
  ASSUME CurveInv, NEW who \in People, Sell(who)
  PROVE /\ token' \in [Account -> Nat] /\ quote' \in [Account -> Int] /\ VaultOK(vault')
        /\ \A b \in Account : Claimable(vault, b)' = Claimable(vault, b)
        /\ market' \in MarketRecords /\ terms' = terms
        /\ Settled(market') /\ Product(market') >= Product(market)
        /\ \E amount \in Nat : /\ Pays(who, Market, amount)
                               /\ market'.tokenReserve = market.tokenReserve + amount
        /\ quote'[Market] >= Accounted(market') /\ quote'[Vault] >= quote[Vault]
        /\ FeesAddUp(market) => FeesAddUp(market')
<1>1. PICK amount \in 1..token[who], tax \in Taxes, to \in Payees \ {Market} :
        LET gross == QuoteSell(market, amount)
            net == gross - FeeAmount(gross)
            m == AccrueFees([market EXCEPT !.quoteReserve = @ - gross,
                                           !.tokenReserve = @ + amount], gross)
        IN /\ gross > 0 /\ net > 0 /\ Pays(who, Market, amount)
           /\ quote' = Move(quote, Market, to, net, tax)
           /\ quote'[Market] >= Accounted(m)
           /\ market' = m
  BY DEF Sell
<1> DEFINE gross == QuoteSell(market, amount)
           base == Price(market)
           sum == market.tokenReserve + amount
           after == ReserveAfter(base, market.tokenReserve, sum)
<1>2. /\ who \in Account /\ Market \in Account /\ to \in Account /\ token[who] \in Nat
      /\ tax \in Nat /\ Vault \in Account /\ Vault # Market
  BY VaultAssumption, MarketAssumption DEF CurveInv, CurveTypes
<1>3. /\ market.quoteReserve \in Nat /\ market.tokenReserve \in Nat /\ Threshold \in Nat
      /\ base \in Nat \ {0} /\ base = Virtual + market.quoteReserve
      /\ amount \in Nat /\ amount > 0 /\ sum \in Nat \ {0}
  BY <1>2, MarketAssumption DEF CurveInv, CurveTypes, MarketRecords, Price
<1>4. after \in Nat /\ after * sum >= base * market.tokenReserve
  BY <1>3, ProductCovered
<1>5. gross = IF after < base /\ base - after <= market.quoteReserve THEN base - after ELSE 0
  BY DEF QuoteSell
<1> HIDE DEF gross, after, base, sum
<1>6. gross > 0
  BY <1>1 DEF gross
<1>7. /\ gross = base - after /\ gross \in Nat /\ gross <= market.quoteReserve
      /\ market.quoteReserve - gross \in Nat
  BY <1>3, <1>4, <1>5, <1>6
<1>8. /\ token' \in [Account -> Nat] /\ VaultOK(vault')
      /\ \A b \in Account : Claimable(vault, b)' = Claimable(vault, b)
  BY <1>1, <1>2, <1>3, PaysIs DEF CurveInv
<1>9. FeeAmount(gross) \in Nat
  BY <1>7, FeesAreWhole DEF CurveInv, CurveTypes
<1>10. quote' \in [Account -> Int] /\ quote'[Vault] >= quote[Vault]
  <2> DEFINE net == gross - FeeAmount(gross)
  <2>1. net \in Nat
    BY <1>1, <1>7, <1>9 DEF gross
  <2>2. quote' = Move(quote, Market, to, net, tax)
    BY <1>1 DEF gross
  <2> HIDE DEF net
  <2>3. quote \in [Account -> Int] /\ Vault \in Account \ {Market} /\ net \in Int /\ tax \in Int
    BY <1>2, <2>1 DEF CurveInv, CurveTypes
  <2>4. quote' \in [Account -> Int]
    BY <1>2, <2>2, <2>3, MoveKeepsType
  <2>5. \A b \in Account \ {Market} : Move(quote, Market, to, net, tax)[b] >= quote[b]
    BY <1>2, <2>1, <2>3, MoveTakesFromOne
  <2> QED BY <2>2, <2>3, <2>4, <2>5
<1>11. /\ market' \in MarketRecords
       /\ market'.quoteReserve = market.quoteReserve - gross /\ market'.tokenReserve = sum
       /\ market'.state = market.state /\ market'.taken = market.taken
       /\ FeesAddUp(market) => FeesAddUp(market')
  <2> DEFINE left == market.quoteReserve - gross
             n == [market EXCEPT !.quoteReserve = left, !.tokenReserve = sum]
  <2>1. market' = AccrueFees(n, gross)
    BY <1>1 DEF gross, sum
  <2>2. left \in Nat
    BY <1>7
  <2> HIDE DEF left
  <2>3. /\ n \in MarketRecords /\ n.quoteReserve = left /\ n.tokenReserve = sum
        /\ n.state = market.state /\ n.taken = market.taken
        /\ n.feeReserve = market.feeReserve /\ n.claimable = market.claimable
    BY <1>3, <2>2 DEF CurveInv, CurveTypes, MarketRecords
  <2> HIDE DEF n
  <2> QED BY <1>7, <2>1, <2>3, AccrueKeeps DEF left, CurveInv, CurveTypes, FeesAddUp
<1>12. Settled(market')
  <2>1. market.state = "Trading"
    BY DEF Sell, EnsureTrading
  <2> QED BY <1>3, <1>7, <1>11, <2>1 DEF Settled, CurveInv
<1>13. Price(market') = after
  BY <1>3, <1>4, <1>7, <1>11, MarketAssumption DEF Price
<1>14. Product(market') >= Product(market)
  BY <1>4, <1>11, <1>13 DEF Product, base
<1>15. terms' = terms
  BY DEF Sell
<1>16. amount \in Nat /\ Pays(who, Market, amount) /\ quote'[Market] >= Accounted(market')
       /\ sum = market.tokenReserve + amount
  BY <1>1, <1>3 DEF sum
<1> QED BY <1>8, <1>10, <1>11, <1>12, <1>14, <1>15, <1>16

\* What an account may claim only falls when it is paid that much.
ClaimsPaid ==
  \A a \in Account : Claimable(vault, a)' < Claimable(vault, a) =>
        quote'[a] = quote[a] + Claimable(vault, a)

Holds(m) == Product(m) >= Product(market) \/ market.state # "Trading"

LEMMA SameClaims ==
  ASSUME VaultOK(vault), \A b \in Account : Claimable(vault, b)' >= Claimable(vault, b),
         \A b \in Account : Claimable(vault, b)' \in Int
  PROVE ClaimsPaid
<1>1. \A b \in Account : Claimable(vault, b) \in Nat
  BY ClaimableIs
<1> QED BY <1>1 DEF ClaimsPaid

\* What a claim changes, read off its definition
ClaimedBy(a, tax) ==
  LET amount == Checkpoint(vault, a).accrued[a]
  IN \E n \in {1} \cup Takings(a, amount),
        after \in Inside([Checkpoint(vault, a) EXCEPT !.accrued[a] = 0],
                         Move(quote, Vault, a, amount, tax)) :
       /\ quote' = Move(quote, Vault, a, n * amount, tax)
       /\ quote[Vault] - quote'[Vault] = amount /\ quote'[a] - quote[a] = amount
       /\ token' = after[2]
       /\ vault' = [after[1] EXCEPT !.accounted = vault.accounted - amount,
                                    !.claimed = @ + amount]

LEMMA ClaimIs ==
  ASSUME Claim
  PROVE \E a \in People, tax \in Taxes :
          ClaimedBy(a, tax) /\ Checkpoint(vault, a).accrued[a] > 0
<1>1. PICK a \in People, tax \in Taxes :
        LET c == Checkpoint(vault, a)
            amount == c.accrued[a]
            payments == IF custody = "coins" THEN {1} ELSE Takings(a, amount)
        IN /\ amount > 0 /\ amount <= vault.accounted /\ quote[Vault] >= vault.accounted
           /\ \E n \in payments, after \in Inside([c EXCEPT !.accrued[a] = 0],
                                                  Move(quote, Vault, a, amount, tax)) :
                /\ n * amount <= quote[Vault]
                /\ quote' = Move(quote, Vault, a, n * amount, tax)
                /\ quote[Vault] - quote'[Vault] = amount /\ quote'[a] - quote[a] = amount
                /\ token' = after[2]
                /\ vault' = [after[1] EXCEPT !.accounted = vault.accounted - amount,
                                             !.claimed = @ + amount]
           /\ UNCHANGED custody
  BY Zenon DEF Claim
<1> DEFINE amount == Checkpoint(vault, a).accrued[a]
           payments == IF custody = "coins" THEN {1} ELSE Takings(a, amount)
<1>2. PICK n \in payments,
           after \in Inside([Checkpoint(vault, a) EXCEPT !.accrued[a] = 0],
                            Move(quote, Vault, a, amount, tax)) :
        /\ quote' = Move(quote, Vault, a, n * amount, tax)
        /\ quote[Vault] - quote'[Vault] = amount /\ quote'[a] - quote[a] = amount
        /\ token' = after[2]
        /\ vault' = [after[1] EXCEPT !.accounted = vault.accounted - amount,
                                     !.claimed = @ + amount]
  BY <1>1, Zenon
<1>3. n \in {1} \cup Takings(a, amount)
  BY <1>2
<1>4. ClaimedBy(a, tax)
  BY <1>2, <1>3, Zenon DEF ClaimedBy
<1> QED BY <1>1, <1>4, Zenon

\* A reward step that pays nobody is a step of the vault's accounting alone.
LEMMA RewardKeeps ==
  ASSUME CurveInv, NotifyReward \/ Transfer \/ Claim
  PROVE /\ token' \in [Account -> Nat] /\ quote' \in [Account -> Int] /\ VaultOK(vault')
        /\ ClaimsPaid
<1> USE DEF CurveInv, CurveTypes
<1>1. CASE NotifyReward
  <2> DEFINE q == quote[Vault]
  <2>1. q \in Int /\ q >= vault.accounted /\ vault.total > 0
    BY <1>1, VaultAssumption DEF NotifyReward, MayNotify
  <2>2. vault' = Distribute(vault, q) /\ token' = token /\ quote' = quote
    BY <1>1 DEF NotifyReward
  <2> HIDE DEF q
  <2>3. /\ VaultOK(vault')
        /\ \A b \in Account : Claimable(vault', b) >= Claimable(vault, b)
    BY <2>1, <2>2, DistributeGrows
  <2>4. \A b \in Account : Claimable(vault, b)' = Claimable(vault', b)
    BY DEF Claimable
  <2>5. \A b \in Account : Claimable(vault', b) \in Nat
    BY <2>3, ClaimableIs
  <2> QED BY <2>2, <2>3, <2>4, <2>5, SameClaims
<1>2. CASE Transfer
  <2>1. PICK from \in People, to \in Payees : \E amount \in 0..token[from] :
          /\ CanTransfer(vault, token, from, to, amount)
          /\ token' = Transferred(token, from, to, amount)
          /\ vault' = Notified(vault, token', from, to)
    BY <1>2 DEF Transfer
  <2>2. PICK amount \in 0..token[from] : Pays(from, to, amount)
    BY <2>1 DEF Pays
  <2>3. from \in Account /\ to \in Account /\ amount \in Nat /\ quote' = quote
    BY <1>2, <2>1, VaultAssumption DEF Transfer
  <2>4. /\ token' \in [Account -> Nat] /\ VaultOK(vault')
        /\ \A b \in Account : Claimable(vault, b)' = Claimable(vault, b)
    BY <2>2, <2>3, PaysIs
  <2>5. \A b \in Account : Claimable(vault, b) \in Nat
    BY ClaimableIs
  <2> QED BY <2>3, <2>4, <2>5, SameClaims
<1>3. CASE Claim
  <2>1. PICK a \in People, tax \in Taxes : ClaimedBy(a, tax)
    BY <1>3, ClaimIs
  <2> DEFINE amt == Checkpoint(vault, a).accrued[a]
  <2>2. PICK n \in {1} \cup Takings(a, amt),
             after \in Inside([Checkpoint(vault, a) EXCEPT !.accrued[a] = 0],
                              Move(quote, Vault, a, amt, tax)) :
          /\ quote' = Move(quote, Vault, a, n * amt, tax)
          /\ quote'[a] - quote[a] = amt
          /\ token' = after[2]
          /\ vault' = [after[1] EXCEPT !.accounted = vault.accounted - amt, !.claimed = @ + amt]
    BY <2>1, Zenon DEF ClaimedBy
  <2>3. /\ amt = Claimable(vault, a)
        /\ VaultOK(after[1]) /\ after[2] \in [Account -> Nat]
        /\ \A b \in Account \ {a} : Claimable(after[1], b) = Claimable(vault, b)
    <3> DEFINE q == Move(quote, Vault, a, amt, tax)
    <3>1. after \in Inside(Cleared(vault, a), q)
      BY <2>2 DEF Cleared
    <3>2. VaultOK(vault) /\ token \in [Account -> Nat] /\ a \in People
      BY <2>1
    <3> HIDE DEF q
    <3> QED BY <3>1, <3>2, PaymentPays
  <2> HIDE DEF amt
  <2>4. /\ a \in Account /\ Vault \in Account /\ tax \in Int
        /\ \A b \in Account : Claimable(vault, b) \in Nat
    BY VaultAssumption, ClaimableIs
  <2>5. n \in Nat
    BY DEF Takings
  <2>6. quote' \in [Account -> Int]
    <3>1. n * amt \in Int
      BY <2>3, <2>4, <2>5
    <3> QED BY <2>2, <2>4, <3>1, MoveKeepsType
  <2> DEFINE paid == vault.accounted - amt  claimed == after[1].claimed + amt
  <2>7. paid \in Int /\ claimed \in Int
    BY <2>3, <2>4 DEF VaultOK, VaultRecords
  <2>8. vault' = [after[1] EXCEPT !.accounted = paid, !.claimed = claimed]
    BY <2>2, <2>3 DEF VaultOK, VaultRecords
  <2> HIDE DEF paid, claimed
  <2>9. VaultOK(vault') /\ \A b \in Account : Claimable(vault', b) = Claimable(after[1], b)
    BY <2>3, <2>7, <2>8 DEF VaultOK, VaultRecords, Claimable
  <2>10. \A b \in Account : Claimable(vault, b)' = Claimable(vault', b)
    BY DEF Claimable
  <2>11. ClaimsPaid
    <3>1. \A b \in Account \ {a} : Claimable(vault, b)' = Claimable(vault, b)
      BY <2>3, <2>9, <2>10
    <3>2. quote'[a] = quote[a] + Claimable(vault, a)
      BY <2>2, <2>3, <2>4, <2>6
    <3> QED BY <2>4, <3>1, <3>2 DEF ClaimsPaid
  <2> QED BY <2>2, <2>3, <2>6, <2>9, <2>11
<1> QED BY <1>1, <1>2, <1>3

-----------------------------------------------------------------------------
(* The theorems. *)

LEMMA CurveInitially == Init => CurveInv
<1> SUFFICES ASSUME Init PROVE CurveInv
  OBVIOUS
<1> DEFINE empty == [tracked |-> NoneOf, shares |-> NoneOf, paid |-> NoneOf,
                     remainder |-> NoneOf, accrued |-> NoneOf,
                     total |-> 0, perShare |-> 0, accounted |-> 0, undistributed |-> 0,
                     notified |-> 0, claimed |-> 0]
<1>1. /\ quote = Endowment /\ token = [NoneOf EXCEPT ![InitialReceiver] = Supply]
      /\ vault = NotifyBalance(empty, InitialReceiver, Supply)
      /\ terms \in Terms
  BY DEF Init, VaultInit
<1>2. NoneOf \in [Account -> Nat] /\ InitialReceiver \in Account /\ Supply \in Nat
  BY VaultAssumption DEF NoneOf
<1>3. VaultOK(empty)
  BY <1>2 DEF VaultOK, VaultRecords, NoneOf
<1> HIDE DEF empty
<1>4. VaultOK(vault)
  BY <1>1, <1>2, <1>3, NotifyBalancePays
<1>5. market \in MarketRecords /\ Settled(market)
  BY <1>2 DEF Init, MarketRecords, MarketStates, Settled, NoneOf
<1>6. token \in [Account -> Nat] /\ quote \in [Account -> Int]
  BY <1>1, <1>2, MarketAssumption
<1> QED BY <1>1, <1>4, <1>5, <1>6 DEF CurveInv, CurveTypes

\* The market's steps that neither buy nor sell
LEMMA OtherStepsKeep ==
  ASSUME CurveInv,
         \/ Initialize \/ MarkGraduated \/ TakeGraduationReserves
         \/ \E a \in People \cup {Hook} : ClaimFees(a)
         \/ \E a \in People : Donate(a)
  PROVE /\ token' \in [Account -> Nat] /\ quote' \in [Account -> Int] /\ VaultOK(vault')
        /\ \A b \in Account : Claimable(vault, b)' = Claimable(vault, b)
        /\ market' \in MarketRecords /\ Settled(market') /\ terms' = terms
        /\ Holds(market')
<1>0. /\ People \cup {Market, Factory, Hook} \subseteq Account /\ Threshold \in Nat \ {0}
      /\ token \in [Account -> Nat] /\ quote \in [Account -> Int] /\ VaultOK(vault)
      /\ market \in MarketRecords /\ Taxes \subseteq Int /\ MaxTrade \in Nat
  BY MarketAssumption, VaultAssumption DEF CurveInv, CurveTypes
<1>00. vault' = vault => VaultOK(vault') /\ \A b \in Account : Claimable(vault, b)' = Claimable(vault, b)
  BY <1>0 DEF Claimable
<1>1. CASE Initialize
  <2>1. PICK amount \in Deposits \cap 1..token[Factory] :
          /\ Pays(Factory, Market, amount)
          /\ market' = [market EXCEPT !.state = "Trading", !.tokenReserve = amount]
    BY <1>1 DEF Initialize
  <2>2. market.state = "Uninitialized" /\ quote' = quote /\ terms' = terms
    BY <1>1 DEF Initialize
  <2>3. amount \in Nat
    BY <2>1
  <2>4. /\ token' \in [Account -> Nat] /\ VaultOK(vault')
        /\ \A b \in Account : Claimable(vault, b)' = Claimable(vault, b)
    BY <1>0, <2>1, <2>3, PaysIs DEF CurveInv
  <2>5. /\ market' \in MarketRecords /\ market'.state = "Trading" /\ market'.taken = market.taken
        /\ market'.quoteReserve = market.quoteReserve
    BY <1>0, <2>1, <2>3 DEF MarketRecords, MarketStates
  <2>6. Settled(market') /\ Holds(market')
    BY <1>0, <2>2, <2>5 DEF Settled, Holds, CurveInv
  <2> QED BY <1>0, <2>2, <2>4, <2>5, <2>6
<1>2. CASE MarkGraduated
  <2>1. /\ market.state = "GraduationReady" /\ market.quoteReserve >= Threshold
        /\ market' = [market EXCEPT !.state = "Graduated"]
        /\ token' = token /\ quote' = quote /\ vault' = vault /\ terms' = terms
    BY <1>2 DEF MarkGraduated
  <2>2. /\ market' \in MarketRecords /\ market'.state = "Graduated"
        /\ market'.taken = market.taken /\ market'.quoteReserve = market.quoteReserve
    BY <1>0, <2>1 DEF MarketRecords, MarketStates
  <2>3. Settled(market') /\ Holds(market')
    BY <2>1, <2>2 DEF Settled, Holds, CurveInv
  <2> QED BY <1>0, <1>00, <2>1, <2>2, <2>3
<1>3. CASE TakeGraduationReserves
  <2>1. PICK tax \in Taxes : quote' = Move(quote, Market, Factory, market.quoteReserve, tax)
    BY <1>3 DEF TakeGraduationReserves
  <2>2. /\ market.state = "Graduated" /\ Pays(Market, Factory, market.tokenReserve)
        /\ market' = [market EXCEPT !.quoteReserve = 0, !.tokenReserve = 0, !.taken = TRUE]
        /\ terms' = terms
    BY <1>3 DEF TakeGraduationReserves
  <2>3. market.tokenReserve \in Nat /\ market.quoteReserve \in Int
    BY <1>0 DEF MarketRecords
  <2>4. /\ token' \in [Account -> Nat] /\ VaultOK(vault')
        /\ \A b \in Account : Claimable(vault, b)' = Claimable(vault, b)
    BY <1>0, <2>2, <2>3, PaysIs DEF CurveInv
  <2>5. quote' \in [Account -> Int]
    BY <1>0, <2>1, <2>3, MoveKeepsType
  <2>6. /\ market' \in MarketRecords /\ market'.state = "Graduated" /\ market'.taken = TRUE
        /\ market'.quoteReserve = 0
    BY <1>0, <2>2 DEF MarketRecords, MarketStates
  <2>7. Settled(market') /\ Holds(market')
    BY <2>2, <2>6 DEF Settled, Holds
  <2> QED BY <2>2, <2>4, <2>5, <2>6, <2>7
<1>4. ASSUME NEW a \in People \cup {Hook}, ClaimFees(a)
      PROVE /\ quote' \in [Account -> Int] /\ vault' = vault /\ token' = token /\ terms' = terms
            /\ market' \in MarketRecords /\ Settled(market') /\ Holds(market')
  <2> DEFINE amount == market.claimable[a]  left == market.feeReserve - amount
             none == [market.claimable EXCEPT ![a] = 0]
  <2>1. PICK tax \in Taxes : quote' = Move(quote, Market, a, amount, tax)
    BY <1>4 DEF ClaimFees
  <2>2. a \in Account /\ amount \in Int /\ left \in Int /\ none \in [Account -> Int]
    BY <1>0 DEF MarketRecords
  <2>3. quote' \in [Account -> Int]
    BY <1>0, <2>1, <2>2, MoveKeepsType
  <2>4. /\ market' = [market EXCEPT !.claimable[a] = 0, !.feeReserve = @ - amount]
        /\ vault' = vault /\ token' = token /\ terms' = terms
    BY <1>4 DEF ClaimFees
  <2>5. market' = [market EXCEPT !.claimable = none, !.feeReserve = left]
    BY <1>0, <2>4 DEF MarketRecords
  <2> HIDE DEF none, left
  <2>6. /\ market' \in MarketRecords /\ market'.state = market.state
        /\ market'.taken = market.taken /\ market'.quoteReserve = market.quoteReserve
        /\ market'.tokenReserve = market.tokenReserve
    BY <1>0, <2>2, <2>5 DEF MarketRecords
  <2>7. Settled(market')
    BY <2>6 DEF Settled, CurveInv
  <2>8. Product(market') = Product(market) /\ Product(market) \in Int
    BY <1>0, <2>6, MarketAssumption DEF Product, Price, MarketRecords
  <2> QED BY <2>3, <2>4, <2>6, <2>7, <2>8 DEF Holds
<1>5. ASSUME NEW a \in People, Donate(a)
      PROVE /\ quote' \in [Account -> Int] /\ vault' = vault /\ token' = token /\ terms' = terms
            /\ market' \in MarketRecords /\ Settled(market') /\ Holds(market')
  <2>1. PICK amount \in 1..Lesser(MaxTrade, quote[a]) : quote' = Move(quote, a, Market, amount, 0)
    BY <1>5 DEF Donate
  <2>2. vault' = vault /\ token' = token /\ terms' = terms /\ market' = market
    BY <1>5 DEF Donate
  <2>3. quote' \in [Account -> Int]
    BY <1>0, <2>1, MoveKeepsType
  <2>4. Product(market) \in Int
    BY <1>0, MarketAssumption DEF Product, Price, MarketRecords
  <2> QED BY <1>0, <2>2, <2>3, <2>4 DEF CurveInv, Holds
<1> QED BY <1>0, <1>00, <1>1, <1>2, <1>3, <1>4, <1>5

\* What every step keeps: the invariant, what accounts may claim, the product.
StepKeeps ==
  /\ token' \in [Account -> Nat] /\ quote' \in [Account -> Int] /\ VaultOK(vault')
  /\ market' \in MarketRecords /\ Settled(market') /\ terms' = terms
  /\ ClaimsPaid /\ Holds(market')

LEMMA CurveStep ==
  ASSUME CurveInv, [Next]_vars
  PROVE StepKeeps
<1>0. /\ People \subseteq Account /\ Payees \subseteq Account /\ Market \in Account
      /\ Hook \in Account /\ Vault \in Account /\ Taxes \subseteq Int
      /\ token \in [Account -> Nat] /\ quote \in [Account -> Int] /\ VaultOK(vault)
      /\ terms \in Terms /\ market \in MarketRecords /\ Settled(market)
      /\ MaxTrade \in Nat
  BY MarketAssumption, VaultAssumption DEF CurveInv, CurveTypes
<1>1. \A b \in Account : Claimable(vault, b) \in Nat
  BY <1>0, ClaimableIs
<1>2. market' = market => Holds(market')
  BY <1>0, MarketAssumption DEF Holds, Product, Price, MarketRecords
<1>3. (\A b \in Account : Claimable(vault, b)' = Claimable(vault, b)) => ClaimsPaid
  BY <1>1 DEF ClaimsPaid
<1>4. vault' = vault => VaultOK(vault') /\ ClaimsPaid
  BY <1>0, <1>3 DEF Claimable
<1>5. CASE UNCHANGED vars
  BY <1>0, <1>2, <1>4, <1>5 DEF vars, StepKeeps
<1>6. ASSUME NEW a \in People, Buy(a) PROVE StepKeeps
  <2>1. PICK paid \in 1..Lesser(MaxTrade, quote[a]), tax \in Taxes, to \in Payees :
          LET received == paid - Lesser(tax, paid)
          IN /\ received > 0
             /\ quote' = Move(quote, a, Market, paid, tax)
             /\ ExecuteBuy(to, received, quote')
    BY <1>6 DEF Buy
  <2> DEFINE received == paid - Lesser(tax, paid)
  <2>2. received \in Int /\ a \in Account /\ to \in Account /\ paid \in Int /\ tax \in Int
    BY <1>0, <2>1 DEF Lesser
  <2>3. received > 0 /\ ExecuteBuy(to, received, quote')
    BY <2>1
  <2> HIDE DEF received
  <2>4. received \in Nat /\ EnsureTrading(market) /\ terms' = terms
    BY <1>6, <2>2, <2>3 DEF Buy
  <2>5. quote' \in [Account -> Int]
    BY <1>0, <2>1, <2>2, MoveKeepsType
  <2>6. /\ token' \in [Account -> Nat] /\ VaultOK(vault')
        /\ \A b \in Account : Claimable(vault, b)' = Claimable(vault, b)
        /\ market' \in MarketRecords
        /\ Settled(market') /\ Product(market') >= Product(market)
    BY <2>2, <2>3, <2>4, PurchaseKeeps
  <2> QED BY <1>3, <2>4, <2>5, <2>6 DEF StepKeeps, Holds
<1>7. ASSUME NEW a \in People, Sell(a) PROVE StepKeeps
  BY <1>3, <1>7, SaleKeeps DEF StepKeeps, Holds
<1>8. CASE PrepaidBuy
  <2> DEFINE gross == quote[Market] - Accounted(market)
  <2>1. PICK to \in Payees : ExecuteBuy(to, gross, quote)
    BY <1>8 DEF PrepaidBuy
  <2>2. gross \in Nat
    BY <1>0, <1>8 DEF PrepaidBuy, Accounted, MarketRecords
  <2>3. to \in Account /\ EnsureTrading(market) /\ terms' = terms /\ quote' = quote
    BY <1>0, <1>8 DEF PrepaidBuy
  <2> HIDE DEF gross
  <2>4. /\ token' \in [Account -> Nat] /\ VaultOK(vault')
        /\ \A b \in Account : Claimable(vault, b)' = Claimable(vault, b)
        /\ market' \in MarketRecords
        /\ Settled(market') /\ Product(market') >= Product(market)
    BY <2>1, <2>2, <2>3, PurchaseKeeps
  <2> QED BY <1>0, <1>3, <2>3, <2>4 DEF StepKeeps, Holds
<1>9. CASE RewardStep
  <2>1. market' = market /\ terms' = terms
    BY <1>9 DEF RewardStep
  <2>2. CASE NotifyReward \/ Transfer \/ Claim
    BY <1>0, <1>2, <2>1, <2>2, RewardKeeps DEF StepKeeps
  <2>3. ASSUME NEW from \in People \cup {Hook}, Fund(from) PROVE StepKeeps
    <3>1. PICK amount \in 1..quote[from], tax \in Taxes :
            quote' = Move(quote, from, Vault, amount, IF custody = "coins" THEN tax ELSE 0)
      BY <2>3 DEF Fund
    <3>2. quote' \in [Account -> Int]
      <4> DEFINE kept == IF custody = "coins" THEN tax ELSE 0
      <4>1. kept \in Int /\ amount \in Int /\ from \in Account
        BY <1>0
      <4>2. quote' = Move(quote, from, Vault, amount, kept)
        BY <3>1
      <4> HIDE DEF kept
      <4> QED BY <1>0, <4>1, <4>2, MoveKeepsType
    <3>3. vault' = vault /\ token' = token
      BY <2>3 DEF Fund
    <3> QED BY <1>0, <1>2, <1>4, <2>1, <3>2, <3>3 DEF StepKeeps
  <2> QED BY <1>9, <2>2, <2>3 DEF RewardStep
<1>10. CASE \/ Initialize \/ MarkGraduated \/ TakeGraduationReserves
            \/ \E a \in People \cup {Hook} : ClaimFees(a)
            \/ \E a \in People : Donate(a)
  BY <1>3, <1>10, OtherStepsKeep DEF StepKeeps
<1> QED BY <1>5, <1>6, <1>7, <1>8, <1>9, <1>10 DEF Next

-----------------------------------------------------------------------------
(* The books of the vault and of the market. *)

\* The vault knows the balances, its books balance, and the coins are there.
BooksKept(v, t, q) ==
  SharesOfTracked(v) /\ Balanced(v) /\ v.tracked = t /\ q[Vault] >= v.accounted

\* The market holds its reserves and the fees it owes.
ReservesHeld(t, q, m) ==
  q[Market] >= Accounted(m) /\ t[Market] >= m.tokenReserve /\ FeesAddUp(m)

BookInv == BooksKept(vault, token, quote) /\ ReservesHeld(token, quote, market)

BooksAfter == BooksKept(vault', token', quote') /\ ReservesHeld(token', quote', market')

LEMMA PaysKeepsBooks ==
  ASSUME CurveTypes, BookInv, NEW from \in Account, NEW to \in Account, NEW amount \in Nat,
         Pays(from, to, amount), quote' \in [Account -> Int], quote'[Vault] >= quote[Vault]
  PROVE /\ BooksKept(vault', token', quote')
        /\ \A b \in Account \ {from} : token'[b] >= token[b]
        /\ from # to => token'[to] = token[to] + amount
<1>1. /\ amount <= token[from] /\ token' = Transferred(token, from, to, amount)
      /\ vault' = Notified(vault, Transferred(token, from, to, amount), from, to)
  BY DEF Pays, CanTransfer
<1>2. /\ token \in [Account -> Nat] /\ VaultOK(vault) /\ SharesOfTracked(vault)
      /\ Balanced(vault) /\ vault.tracked = token /\ quote[Vault] >= vault.accounted
      /\ quote \in [Account -> Int] /\ Vault \in Account /\ vault.accounted \in Int
  BY VaultAssumption DEF CurveTypes, BookInv, BooksKept, VaultOK, VaultRecords
<1>3. vault'.tracked = token' /\ SharesOfTracked(vault') /\ SameBooks(vault, vault')
  BY <1>1, <1>2, TransferBooks
<1>4. Balanced(vault') /\ vault'.accounted = vault.accounted
  BY <1>2, <1>3 DEF Balanced, SameBooks
<1>5. quote'[Vault] >= vault'.accounted
  BY <1>2, <1>4
<1>6. /\ \A b \in Account \ {from} : token'[b] >= token[b]
      /\ from # to => token'[to] = token[to] + amount
  BY <1>1, <1>2 DEF Transferred
<1> QED BY <1>3, <1>4, <1>5, <1>6 DEF BooksKept

\* A step that leaves the vault and the balances alone, and pays it nothing less
LEMMA QuietBooks ==
  ASSUME CurveTypes, BookInv, vault' = vault, token' = token,
         quote' \in [Account -> Int], quote'[Vault] >= quote[Vault]
  PROVE BooksKept(vault', token', quote')
<1>1. vault.accounted \in Int /\ quote[Vault] \in Int /\ quote'[Vault] \in Int
  BY VaultAssumption DEF CurveTypes, VaultOK, VaultRecords
<1> QED BY <1>1 DEF BookInv, BooksKept

LEMMA BooksInitially == Init => BookInv
<1> SUFFICES ASSUME Init PROVE BookInv
  OBVIOUS
<1> DEFINE empty == [tracked |-> NoneOf, shares |-> NoneOf, paid |-> NoneOf,
                     remainder |-> NoneOf, accrued |-> NoneOf,
                     total |-> 0, perShare |-> 0, accounted |-> 0, undistributed |-> 0,
                     notified |-> 0, claimed |-> 0]
<1>1. /\ quote = Endowment /\ token = [NoneOf EXCEPT ![InitialReceiver] = Supply]
      /\ vault = NotifyBalance(empty, InitialReceiver, Supply)
  BY DEF Init, VaultInit
<1>2. /\ NoneOf \in [Account -> Nat] /\ NoneOf \in [Account -> Int]
      /\ \A a \in Account : NoneOf[a] = 0
      /\ InitialReceiver \in Account /\ Supply \in Nat /\ IsFiniteSet(Account)
      /\ SCALE \in Nat \ {0} /\ MinEligible \in Nat \ {0} /\ Excluded \subseteq Account
  BY VaultAssumption DEF NoneOf
<1>3. Sum(NoneOf) = 0
  BY <1>2, SumOfNone
<1>4. /\ empty.shares = NoneOf /\ empty.tracked = NoneOf /\ empty.accrued = NoneOf
      /\ empty.remainder = NoneOf /\ empty.paid = NoneOf /\ empty.total = 0
      /\ empty.perShare = 0 /\ empty.undistributed = 0 /\ empty.accounted = 0
      /\ empty.notified = 0 /\ empty.claimed = 0
      /\ VaultOK(empty)
  BY <1>2 DEF VaultOK, VaultRecords
<1> HIDE DEF empty
<1>5. \A a \in Account : Earned(empty, a) = 0
  BY <1>2, <1>4 DEF Earned
<1>6. SharesOfTracked(empty)
  <2>1. ASSUME NEW a \in Account PROVE SharesFor(a, 0) = 0
    BY <1>2 DEF SharesFor
  <2>2. NoneOf = [a \in Account |-> SharesFor(a, NoneOf[a])]
    BY <1>2, <2>1 DEF NoneOf
  <2>3. ASSUME NEW a \in Account PROVE Claimable(empty, a) = 0
    <3>1. Claimable(empty, a) = 0 + ((0 + 0) \div SCALE)
      BY <1>2, <1>4, <1>5, ClaimableIs
    <3> QED BY <1>2, <3>1
  <2> QED BY <1>2, <1>3, <1>4, <2>2, <2>3 DEF SharesOfTracked
<1>7. Balanced(empty)
  <2>1. ASSUME NEW a \in Account PROVE Owed(empty)[a] = 0
    <3>1. Owed(empty)[a] = SCALE * 0 + 0 + 0
      BY <1>2, <1>4, <1>5, OwedIs
    <3> QED BY <1>2, <3>1
  <2>2. Sum(Owed(empty)) = 0
    BY <1>2, <1>4, <2>1, OwedIs, SumOfNone
  <2>3. SCALE * 0 = 0 + 0
    BY <1>2
  <2> QED BY <1>4, <2>2, <2>3 DEF Balanced
<1>8. /\ SharesOfTracked(vault) /\ SameBooks(empty, vault)
      /\ vault.tracked = [NoneOf EXCEPT ![InitialReceiver] = Supply]
  <2>1. empty.tracked = NoneOf /\ VaultOK(empty)
    BY <1>4
  <2> DEFINE w == NotifyBalance(empty, InitialReceiver, Supply)
  <2>2. /\ SharesOfTracked(w) /\ SameBooks(empty, w)
        /\ w.tracked = [empty.tracked EXCEPT ![InitialReceiver] = Supply]
    BY <1>2, <1>6, <2>1, NotifyBalanceBooks
  <2>3. vault = w
    BY <1>1
  <2> HIDE DEF w
  <2> QED BY <2>1, <2>2, <2>3
<1>9. Balanced(vault) /\ vault.accounted = 0
  BY <1>4, <1>7, <1>8 DEF Balanced, SameBooks
<1>10. quote[Vault] >= 0 /\ quote[Market] >= 0 /\ token[Market] >= 0
  BY <1>1, <1>2, MarketAssumption, VaultAssumption
<1>11. /\ market.quoteReserve = 0 /\ market.feeReserve = 0 /\ market.tokenReserve = 0
       /\ market.claimable = NoneOf
  BY DEF Init
<1>12. ReservesHeld(token, quote, market)
  BY <1>3, <1>10, <1>11 DEF ReservesHeld, Accounted, FeesAddUp
<1> QED BY <1>1, <1>8, <1>9, <1>10, <1>12 DEF BookInv, BooksKept

\* What every case below needs of the constants and the types
LEMMA BookFacts ==
  ASSUME CurveInv, BookInv
  PROVE /\ People \subseteq Account \ {Vault, Hook, Market} /\ Payees \subseteq Account
        /\ {Market, Factory, Hook, Vault} \subseteq Account /\ Taxes \subseteq Nat
        /\ Market \notin {Factory, Hook, Vault} /\ Hook # Vault
        /\ CurveTypes /\ token \in [Account -> Nat] /\ quote \in [Account -> Int]
        /\ VaultOK(vault) /\ market \in MarketRecords /\ ReservesHeld(token, quote, market)
        /\ market.quoteReserve \in Nat /\ market.feeReserve \in Int
        /\ market.tokenReserve \in Nat /\ Accounted(market) \in Int
        /\ vault.accounted \in Int /\ MaxTrade \in Nat
<1>1. /\ CurveTypes /\ token \in [Account -> Nat] /\ quote \in [Account -> Int]
      /\ VaultOK(vault) /\ market \in MarketRecords /\ ReservesHeld(token, quote, market)
  BY DEF CurveInv, CurveTypes, BookInv
<1>2. /\ People \subseteq Account \ {Vault, Hook, Market} /\ Payees \subseteq Account
      /\ {Market, Factory, Hook, Vault} \subseteq Account /\ Taxes \subseteq Nat
      /\ Market \notin {Factory, Hook, Vault} /\ Hook # Vault /\ MaxTrade \in Nat
  BY VaultAssumption, MarketAssumption
<1>3. /\ market.quoteReserve \in Nat /\ market.feeReserve \in Int
      /\ market.tokenReserve \in Nat /\ vault.accounted \in Int
  BY <1>1 DEF MarketRecords, VaultOK, VaultRecords
<1> QED BY <1>1, <1>2, <1>3 DEF Accounted

LEMMA TradesKeepBooks ==
  ASSUME CurveInv, BookInv, (\E a \in People : Buy(a) \/ Sell(a)) \/ PrepaidBuy
  PROVE BooksAfter
<1> USE BookFacts
<1>1. ASSUME NEW a \in People, Buy(a) PROVE BooksAfter
  <2>1. PICK paid \in 1..Lesser(MaxTrade, quote[a]), tax \in Taxes, to \in Payees :
          LET received == paid - Lesser(tax, paid)
          IN /\ received > 0
             /\ quote' = Move(quote, a, Market, paid, tax)
             /\ ExecuteBuy(to, received, quote')
    BY <1>1 DEF Buy
  <2> DEFINE received == paid - Lesser(tax, paid)
  <2>2. /\ received \in Int /\ a \in Account /\ to \in Account /\ paid \in Nat /\ tax \in Nat
        /\ paid \in Int /\ tax \in Int
    BY <2>1 DEF Lesser
  <2>3. received > 0 /\ ExecuteBuy(to, received, quote')
    BY <2>1
  <2> HIDE DEF received
  <2>4. received \in Nat /\ EnsureTrading(market)
    BY <1>1, <2>2, <2>3 DEF Buy
  <2>5. quote' \in [Account -> Int]
    BY <2>1, <2>2, MoveKeepsType
  <2>6. quote'[Vault] >= quote[Vault]
    <3>1. \A b \in Account \ {a} : Move(quote, a, Market, paid, tax)[b] >= quote[b]
      BY <2>2, MoveTakesFromOne
    <3> QED BY <2>1, <3>1
  <2>7. /\ \E out \in Nat : Pays(Market, to, out)
        /\ quote'[Market] >= Accounted(market') /\ token'[Market] >= market'.tokenReserve
        /\ FeesAddUp(market')
    BY <2>2, <2>3, <2>4, PurchaseKeeps DEF ReservesHeld
  <2>8. BooksKept(vault', token', quote')
    BY <2>2, <2>5, <2>6, <2>7, PaysKeepsBooks
  <2> QED BY <2>7, <2>8 DEF BooksAfter, ReservesHeld
<1>2. CASE PrepaidBuy
  <2> DEFINE gross == quote[Market] - Accounted(market)
  <2>1. PICK to \in Payees : ExecuteBuy(to, gross, quote)
    BY <1>2 DEF PrepaidBuy
  <2>2. gross \in Nat /\ EnsureTrading(market) /\ quote' = quote /\ to \in Account
    BY <1>2 DEF PrepaidBuy
  <2> HIDE DEF gross
  <2>3. /\ \E out \in Nat : Pays(Market, to, out)
        /\ quote[Market] >= Accounted(market') /\ token'[Market] >= market'.tokenReserve
        /\ FeesAddUp(market')
    BY <2>1, <2>2, PurchaseKeeps DEF ReservesHeld
  <2>4. BooksKept(vault', token', quote')
    BY <2>2, <2>3, PaysKeepsBooks
  <2> QED BY <2>2, <2>3, <2>4 DEF BooksAfter, ReservesHeld
<1>3. ASSUME NEW a \in People, Sell(a) PROVE BooksAfter
  <2>1. /\ quote' \in [Account -> Int]
        /\ quote'[Market] >= Accounted(market') /\ quote'[Vault] >= quote[Vault]
        /\ FeesAddUp(market')
    BY <1>3, SaleKeeps DEF ReservesHeld
  <2>2. PICK amount \in Nat : /\ Pays(a, Market, amount)
                              /\ market'.tokenReserve = market.tokenReserve + amount
    BY <1>3, SaleKeeps
  <2>3. BooksKept(vault', token', quote') /\ token'[Market] = token[Market] + amount
    BY <2>1, <2>2, PaysKeepsBooks
  <2>4. token[Market] >= market.tokenReserve /\ token[Market] \in Nat
    BY DEF ReservesHeld
  <2>5. token'[Market] >= market'.tokenReserve
    BY <2>2, <2>3, <2>4
  <2> QED BY <2>1, <2>3, <2>5 DEF BooksAfter, ReservesHeld
<1> QED BY <1>1, <1>2, <1>3

LEMMA OtherStepsKeepBooks ==
  ASSUME CurveInv, BookInv, quote' \in [Account -> Int],
         \/ Initialize \/ MarkGraduated \/ TakeGraduationReserves
         \/ \E a \in People \cup {Hook} : ClaimFees(a)
         \/ \E a \in People : Donate(a)
  PROVE BooksAfter
<1> USE BookFacts
<1>0. /\ quote[Market] >= Accounted(market) /\ token[Market] >= market.tokenReserve
      /\ FeesAddUp(market) /\ quote[Market] \in Int /\ token[Market] \in Nat
      /\ quote[Vault] \in Int /\ Vault \in Account \ {Market}
  BY DEF ReservesHeld
<1>1. CASE Initialize
  <2>1. PICK amount \in Deposits \cap 1..token[Factory] :
          /\ Pays(Factory, Market, amount)
          /\ market' = [market EXCEPT !.state = "Trading", !.tokenReserve = amount]
    BY <1>1 DEF Initialize
  <2>2. quote' = quote
    BY <1>1 DEF Initialize
  <2>3. amount \in Nat /\ quote'[Vault] >= quote[Vault]
    BY <1>0, <2>2
  <2>4. BooksKept(vault', token', quote') /\ token'[Market] = token[Market] + amount
    BY <2>1, <2>3, PaysKeepsBooks
  <2>5. /\ market'.tokenReserve = amount /\ market'.quoteReserve = market.quoteReserve
        /\ market'.feeReserve = market.feeReserve /\ market'.claimable = market.claimable
    BY <2>1 DEF MarketRecords
  <2>6. token'[Market] >= market'.tokenReserve
    BY <1>0, <2>4, <2>5, <2>3
  <2>7. Accounted(market') = Accounted(market) /\ FeesAddUp(market')
    BY <1>0, <2>5 DEF Accounted, FeesAddUp
  <2> QED BY <1>0, <2>2, <2>4, <2>6, <2>7 DEF BooksAfter, ReservesHeld
<1>2. CASE MarkGraduated
  <2>1. /\ market' = [market EXCEPT !.state = "Graduated"]
        /\ token' = token /\ quote' = quote /\ vault' = vault /\ quote'[Vault] >= quote[Vault]
    BY <1>0, <1>2 DEF MarkGraduated
  <2>2. /\ market'.tokenReserve = market.tokenReserve
        /\ market'.quoteReserve = market.quoteReserve
        /\ market'.feeReserve = market.feeReserve /\ market'.claimable = market.claimable
    BY <2>1 DEF MarketRecords
  <2>3. Accounted(market') = Accounted(market) /\ FeesAddUp(market')
    BY <1>0, <2>2 DEF Accounted, FeesAddUp
  <2>4. BooksKept(vault', token', quote')
    BY <2>1, QuietBooks
  <2> QED BY <1>0, <2>1, <2>2, <2>3, <2>4 DEF BooksAfter, ReservesHeld
<1>3. CASE TakeGraduationReserves
  <2> DEFINE out == market.quoteReserve
  <2>1. PICK tax \in Taxes : quote' = Move(quote, Market, Factory, out, tax)
    BY <1>3 DEF TakeGraduationReserves
  <2>2. /\ Pays(Market, Factory, market.tokenReserve)
        /\ market' = [market EXCEPT !.quoteReserve = 0, !.tokenReserve = 0, !.taken = TRUE]
    BY <1>3 DEF TakeGraduationReserves
  <2>3. /\ out \in Nat /\ tax \in Nat /\ quote \in [Account -> Int]
        /\ Market \in Account /\ Factory \in Account /\ Market # Factory
    OBVIOUS
  <2> HIDE DEF out
  <2>4. /\ \A b \in Account \ {Market} : Move(quote, Market, Factory, out, tax)[b] >= quote[b]
        /\ Move(quote, Market, Factory, out, tax)[Market] = quote[Market] - out
    <3> HIDE BookFacts
    <3> QED BY <2>3, MoveTakesFromOne
  <2>5. quote'[Vault] >= quote[Vault] /\ quote'[Market] = quote[Market] - out
    BY <1>0, <2>1, <2>4
  <2>6. BooksKept(vault', token', quote')
    BY <2>2, <2>5, PaysKeepsBooks
  <2>7. /\ market'.tokenReserve = 0 /\ market'.quoteReserve = 0
        /\ market'.feeReserve = market.feeReserve /\ market'.claimable = market.claimable
    BY <2>2 DEF MarketRecords
  <2>8. FeesAddUp(market') /\ Accounted(market') = market.feeReserve
    BY <1>0, <2>7 DEF Accounted, FeesAddUp
  <2>9. quote'[Market] >= Accounted(market')
    BY <1>0, <2>5, <2>8 DEF Accounted, out
  <2>10. token'[Market] >= market'.tokenReserve
    <3>1. token' \in [Account -> Nat]
      BY <2>2, PaysIs
    <3> QED BY <2>7, <3>1
  <2> QED BY <2>6, <2>8, <2>9, <2>10 DEF BooksAfter, ReservesHeld
<1>4. ASSUME NEW a \in People \cup {Hook}, ClaimFees(a) PROVE BooksAfter
  <2> DEFINE fees == market.claimable  amount == fees[a]  none == [fees EXCEPT ![a] = 0]
             left == market.feeReserve - amount
  <2>1. PICK tax \in Taxes : quote' = Move(quote, Market, a, amount, tax)
    BY <1>4 DEF ClaimFees
  <2>2. /\ amount > 0 /\ vault' = vault /\ token' = token
        /\ quote'[Market] >= Accounted(market')
        /\ market' = [market EXCEPT !.claimable[a] = 0, !.feeReserve = @ - amount]
    BY <1>4 DEF ClaimFees
  <2>3. a \in Account /\ tax \in Nat /\ fees \in [Account -> Int] /\ amount \in Int /\ left \in Int
    BY DEF MarketRecords
  <2>4. /\ market'.claimable = none /\ market'.feeReserve = left
        /\ market'.tokenReserve = market.tokenReserve
    BY <2>2 DEF MarketRecords
  <2>5. FeesAddUp(market')
    <3>1. IsFiniteSet(Account)
      BY VaultAssumption
    <3>2. market.feeReserve = Sum(fees)
      BY <1>0 DEF FeesAddUp
    <3> HIDE DEF fees
    <3>3. Sum([fees EXCEPT ![a] = 0]) = Sum(fees) + 0 - fees[a]
      <4>1. fees \in [Account -> Int] /\ a \in Account /\ 0 \in Int
        BY <2>3
      <4> QED BY <3>1, <4>1, SumAtPoint, Zenon
    <3>4. Sum(fees) \in Int
      BY <2>3, <3>1, SumType
    <3>5. Sum(none) = left
      BY <2>3, <3>2, <3>3, <3>4
    <3> QED BY <2>4, <3>5 DEF FeesAddUp
  <2> HIDE DEF fees, amount, none, left
  <2>6. amount \in Nat
    BY <2>2, <2>3
  <2>7. \A b \in Account \ {Market} : Move(quote, Market, a, amount, tax)[b] >= quote[b]
    BY <2>3, <2>6, MoveTakesFromOne
  <2>8. quote'[Vault] >= quote[Vault]
    BY <1>0, <2>1, <2>7
  <2>9. BooksKept(vault', token', quote')
    BY <2>2, <2>8, QuietBooks
  <2> QED BY <1>0, <2>2, <2>4, <2>5, <2>9 DEF BooksAfter, ReservesHeld
<1>5. ASSUME NEW a \in People, Donate(a) PROVE BooksAfter
  <2>1. PICK amount \in 1..Lesser(MaxTrade, quote[a]) : quote' = Move(quote, a, Market, amount, 0)
    BY <1>5 DEF Donate
  <2>2. vault' = vault /\ token' = token /\ market' = market
    BY <1>5 DEF Donate
  <2>3. a \in Account \ {Vault, Market} /\ amount \in Nat
    BY <2>1 DEF Lesser
  <2>4. \A b \in Account \ {a} : Move(quote, a, Market, amount, 0)[b] >= quote[b]
    BY <2>3, MoveTakesFromOne
  <2>5. quote'[Vault] >= quote[Vault] /\ quote'[Market] >= quote[Market]
    BY <2>1, <2>3, <2>4
  <2>6. BooksKept(vault', token', quote')
    BY <2>2, <2>5, QuietBooks
  <2>7. quote'[Market] >= Accounted(market)
    BY <1>0, <2>5
  <2> QED BY <1>0, <2>2, <2>6, <2>7 DEF BooksAfter, ReservesHeld
<1> QED BY <1>1, <1>2, <1>3, <1>4, <1>5

\* A claim: what it pays comes off the books and out of the vault.
LEMMA ClaimKeepsBooks ==
  ASSUME CurveInv, BookInv, Claim, market' = market
  PROVE BooksAfter
<1> USE BookFacts
<1>1. PICK a \in People, tax \in Taxes :
        ClaimedBy(a, tax) /\ Checkpoint(vault, a).accrued[a] > 0
  BY ClaimIs
<1> DEFINE amt == Checkpoint(vault, a).accrued[a]
           q == Move(quote, Vault, a, amt, tax)
<1>2. PICK n \in {1} \cup Takings(a, amt), after \in Inside(Cleared(vault, a), q) :
        /\ quote' = Move(quote, Vault, a, n * amt, tax)
        /\ quote[Vault] - quote'[Vault] = amt
        /\ token' = after[2]
        /\ vault' = [after[1] EXCEPT !.accounted = vault.accounted - amt, !.claimed = @ + amt]
  BY <1>1, Zenon DEF ClaimedBy, Cleared
<1> HIDE DEF q
<1>3. amt = Claimable(vault, a) /\ VaultOK(after[1]) /\ after[2] \in [Account -> Nat]
  BY PaymentPays
<1>4. Claimable(vault, a) > 0
  BY <1>1, <1>3
<1> HIDE DEF amt
<1> DEFINE w == [after[1] EXCEPT !.accounted = vault.accounted - Claimable(vault, a),
                                 !.claimed = after[1].claimed + Claimable(vault, a)]
<1>5. vault' = w
  BY <1>2, <1>3 DEF VaultOK, VaultRecords
<1>6. /\ SharesOfTracked(w) /\ Balanced(w) /\ w.tracked = after[2]
      /\ w.accounted = vault.accounted - Claimable(vault, a)
      /\ \A b \in Account \ People : after[2][b] >= token[b]
  BY <1>4, PaymentBooks DEF BookInv, BooksKept
<1> HIDE DEF w
<1>7. amt \in Nat /\ n \in Nat /\ tax \in Nat /\ a \in Account \ {Market} /\ n * amt \in Nat
  <2>1. a \in Account \ {Market} /\ tax \in Nat
    OBVIOUS
  <2>2. amt \in Nat
    BY <1>3, <2>1, ClaimableIs
  <2>3. n \in Nat
    BY DEF Takings
  <2> QED BY <2>1, <2>2, <2>3
<1>8. quote' \in [Account -> Int] /\ quote'[Market] = quote[Market]
  <2> DEFINE all == n * amt
  <2>1. quote' = Move(quote, Vault, a, all, tax) /\ all \in Nat /\ all \in Int /\ tax \in Int
    BY <1>2, <1>7
  <2> HIDE DEF all
  <2>2. \A b \in Account \ {Vault, a} : Move(quote, Vault, a, all, tax)[b] = quote[b]
    <3>1. /\ quote \in [Account -> Int] /\ Vault \in Account /\ a \in Account
          /\ all \in Nat /\ tax \in Nat
      BY <1>7, <2>1
    <3> HIDE BookFacts
    <3> QED BY <3>1, MoveTakesFromOne
  <2>3. Move(quote, Vault, a, all, tax) \in [Account -> Int]
    BY <1>7, <2>1, MoveKeepsType
  <2> QED BY <1>7, <2>1, <2>2, <2>3
<1>9. quote'[Vault] >= vault'.accounted
  <2>1. quote[Vault] >= vault.accounted /\ quote[Vault] \in Int /\ quote'[Vault] \in Int
    BY <1>8 DEF BookInv, BooksKept
  <2> QED BY <1>2, <1>3, <1>5, <1>6, <1>7, <2>1
<1>10. BooksKept(vault', token', quote')
  BY <1>2, <1>5, <1>6, <1>9 DEF BooksKept
<1>11. token'[Market] >= token[Market] /\ token'[Market] \in Nat /\ token[Market] \in Nat
  BY <1>2, <1>3, <1>6
<1> QED BY <1>8, <1>10, <1>11 DEF BooksAfter, ReservesHeld

LEMMA RewardsKeepBooks ==
  ASSUME CurveInv, BookInv, RewardStep, quote' \in [Account -> Int]
  PROVE BooksAfter
<1> USE BookFacts
<1>0. /\ quote[Market] >= Accounted(market) /\ token[Market] >= market.tokenReserve
      /\ FeesAddUp(market) /\ quote[Market] \in Int /\ token[Market] \in Nat
      /\ quote[Vault] \in Int /\ market' = market /\ quote'[Market] \in Int
  BY DEF ReservesHeld, RewardStep
<1>1. ASSUME NEW from \in People \cup {Hook}, Fund(from) PROVE BooksAfter
  <2>1. PICK amount \in 1..quote[from], tax \in Taxes :
          quote' = Move(quote, from, Vault, amount, IF custody = "coins" THEN tax ELSE 0)
    BY <1>1 DEF Fund
  <2>2. vault' = vault /\ token' = token
    BY <1>1 DEF Fund
  <2>3. from \in Account \ {Vault, Market} /\ amount \in Nat
    OBVIOUS
  <2>4. quote'[Vault] >= quote[Vault] /\ quote'[Market] >= quote[Market]
    <3> DEFINE kept == IF custody = "coins" THEN tax ELSE 0
    <3>1. kept \in Nat /\ quote' = Move(quote, from, Vault, amount, kept)
      BY <2>1
    <3> HIDE DEF kept
    <3>2. \A b \in Account \ {from} : Move(quote, from, Vault, amount, kept)[b] >= quote[b]
      BY <2>3, <3>1, MoveTakesFromOne
    <3> QED BY <2>3, <3>1, <3>2
  <2>5. BooksKept(vault', token', quote')
    BY <2>2, <2>4, QuietBooks
  <2>6. quote'[Market] >= Accounted(market)
    BY <1>0, <2>4
  <2> QED BY <1>0, <2>2, <2>5, <2>6 DEF BooksAfter, ReservesHeld
<1>2. CASE NotifyReward
  <2> DEFINE q == quote[Vault]
  <2>1. q \in Int /\ q >= vault.accounted /\ vault.total > 0
    BY <1>2 DEF NotifyReward, MayNotify
  <2>2. vault' = Distribute(vault, q) /\ token' = token /\ quote' = quote
    BY <1>2 DEF NotifyReward
  <2>3. SharesOfTracked(vault) /\ Balanced(vault) /\ vault.tracked = token
    BY DEF BookInv, BooksKept
  <2>4. quote'[Vault] = q
    BY <2>2
  <2> HIDE DEF q
  <2>5. /\ SharesOfTracked(vault') /\ Balanced(vault')
        /\ vault'.tracked = token' /\ vault'.accounted = q
    BY <2>1, <2>2, <2>3, DistributeBooks
  <2>6. BooksKept(vault', token', quote')
    BY <2>1, <2>4, <2>5 DEF BooksKept
  <2> QED BY <1>0, <2>2, <2>6 DEF BooksAfter, ReservesHeld
<1>3. CASE Transfer
  <2>1. PICK from \in People, to \in Payees : \E amount \in 0..token[from] :
          /\ CanTransfer(vault, token, from, to, amount)
          /\ token' = Transferred(token, from, to, amount)
          /\ vault' = Notified(vault, token', from, to)
    BY <1>3 DEF Transfer
  <2>2. PICK amount \in 0..token[from] : Pays(from, to, amount)
    BY <2>1 DEF Pays
  <2>3. from \in Account \ {Market} /\ to \in Account /\ amount \in Nat /\ quote' = quote
    BY <1>3 DEF Transfer
  <2>4. quote'[Vault] >= quote[Vault]
    BY <1>0, <2>3
  <2>5. /\ BooksKept(vault', token', quote')
        /\ \A b \in Account \ {from} : token'[b] >= token[b]
    BY <2>2, <2>3, <2>4, PaysKeepsBooks
  <2>6. token' \in [Account -> Nat]
    BY <2>2, <2>3, PaysIs
  <2>7. token'[Market] >= token[Market] /\ token'[Market] \in Nat
    BY <2>3, <2>5, <2>6
  <2> QED BY <1>0, <2>3, <2>5, <2>7 DEF BooksAfter, ReservesHeld
<1>4. CASE Claim
  BY <1>0, <1>4, ClaimKeepsBooks
<1> QED BY <1>1, <1>2, <1>3, <1>4 DEF RewardStep

LEMMA BooksStep ==
  ASSUME CurveInv, BookInv, [Next]_vars
  PROVE BooksAfter
<1>1. quote' \in [Account -> Int]
  BY CurveStep DEF StepKeeps
<1>2. CASE UNCHANGED vars
  BY <1>2 DEF vars, BookInv, BooksAfter
<1>3. CASE (\E a \in People : Buy(a) \/ Sell(a)) \/ PrepaidBuy
  BY <1>3, TradesKeepBooks
<1>4. CASE \/ Initialize \/ MarkGraduated \/ TakeGraduationReserves
           \/ \E a \in People \cup {Hook} : ClaimFees(a)
           \/ \E a \in People : Donate(a)
  BY <1>1, <1>4, OtherStepsKeepBooks
<1>5. CASE RewardStep
  BY <1>1, <1>5, RewardsKeepBooks
<1> QED BY <1>2, <1>3, <1>4, <1>5 DEF Next

LEMMA BooksPrimed == BooksAfter => BookInv'
<1>1. \A a : Claimable(vault, a)' = Claimable(vault', a)
  BY DEF Claimable
<1> QED BY <1>1 DEF BooksAfter, BookInv, BooksKept, ReservesHeld, SharesOfTracked, Balanced, Owed,
              SharesFor, Accounted, FeesAddUp, Sum, MapThenSumSet, MapThenFoldSet

\* The types, and where the market stands with its reserves, in every state.
THEOREM CurveInvHolds == Spec => []CurveInv
<1>1. Init => CurveInv
  BY CurveInitially
<1>2. CurveInv /\ [Next]_vars => CurveInv'
  BY CurveStep DEF CurveInv, CurveTypes, StepKeeps
<1> QED BY <1>1, <1>2, PTL DEF Spec

\* A market that is ready to graduate is funded, and a graduated one stays shut.
THEOREM GraduationIsFunded == Spec => []GraduationFunded
<1>1. CurveInv => GraduationFunded
  BY DEF CurveInv, CurveTypes, MarketRecords, Settled, GraduationFunded, Accounted
<1> QED BY <1>1, CurveInvHolds, PTL

\* No trade, of any size and with any fee, lowers the product of the reserves.
THEOREM ProductIsKept == Spec => ProductNeverFalls
<1>1. CurveInv /\ [Next]_vars =>
        [market.state = "Trading" =>
           Price(market)' * market'.tokenReserve >= Price(market) * market.tokenReserve]_vars
  <2>1. Price(market)' = Price(market')
    BY DEF Price
  <2> QED BY <2>1, CurveStep DEF StepKeeps, Holds, Product
<1> QED BY <1>1, CurveInvHolds, PTL DEF Spec, ProductNeverFalls

\* Transfers, rewards and what runs inside a payment leave every holder its own.
THEOREM EarnedIsKept == Spec => EarnedStaysEarned
<1>1. CurveInv /\ [Next]_vars => [ClaimsPaid]_vaultVars
  BY CurveStep DEF StepKeeps
<1> QED BY <1>1, CurveInvHolds, PTL DEF Spec, EarnedStaysEarned, ClaimsPaid

\* The books of the vault and of the market are kept in every state.
THEOREM BookInvHolds == Spec => []BookInv
<1>1. Init => BookInv
  BY BooksInitially
<1>2. CurveInv /\ BookInv /\ [Next]_vars => BookInv'
  <2> SUFFICES ASSUME CurveInv, BookInv, [Next]_vars PROVE BookInv'
    OBVIOUS
  <2>1. BooksAfter
    BY BooksStep
  <2> QED BY <2>1, BooksPrimed
<1> QED BY <1>1, <1>2, CurveInvHolds, PTL DEF Spec

\* The market holds its reserves and every fee it owes, after any trades,
\* donations and claims, whatever the coin keeps back and the fees round to.
THEOREM MarketIsBacked == Spec => []MarketBacked
<1>1. BookInv => MarketBacked
  BY DEF BookInv, ReservesHeld, FeesAddUp, Accounted, MarketBacked
<1> QED BY <1>1, BookInvHolds, PTL

\* To the last fraction, the coins the vault accounts for are what its holders
\* are owed and the carry, and the vault has them.
THEOREM RewardsAreConserved == Spec => []RewardsConserved
<1>1. BookInv => RewardsConserved
  BY DEF BookInv, BooksKept, Balanced, Owed, RewardsConserved
<1> QED BY <1>1, BookInvHolds, PTL

\* The shares and their total are those of the balances, through every trade,
\* transfer and transfer inside a payment, and excluded accounts have no claim.
THEOREM SharesAreCurrent == Spec => []SharesFollowBalances
<1>1. BookInv => SharesFollowBalances
  BY DEF BookInv, BooksKept, SharesOfTracked, SharesFollowBalances
<1> QED BY <1>1, BookInvHolds, PTL
=============================================================================
