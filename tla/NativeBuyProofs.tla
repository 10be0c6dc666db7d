-------------------------- MODULE NativeBuyProofs --------------------------
(***************************************************************************)
(* Proofs about NativeBuy, for any taxes, bounds and fee tiers: nobody's   *)
(* coins pay for another one's purchase, no approval outlives a call, and  *)
(* the native coins of a call end with the router or the buyer.            *)
(***************************************************************************)
EXTENDS NativeBuy, TLAPS

Balances == [Holder -> [Coin -> Int]]
NoApproval == [h \in Ours |-> [c \in Coin |-> 0]]

Calls ==
  [phase : {"refunding", "buying", "returning", "settling"}, wrapped : BOOLEAN,
   minToken : Int, base : [Coin -> Int], quoteOut : Nat, saved : Balances]

\* Between two steps of a call, too, nothing is approved.
Types ==
  /\ bal \in Balances /\ before \in Balances
  /\ approved = NoApproval
  /\ tx = Idle \/ tx \in Calls
  /\ traded \subseteq Coin

\* At every step, and not only between calls: b takes nothing of what was there
\* in b0.
NothingTaken(b, b0) ==
  /\ \A c \in Coin : b["coordinator"][c] >= b0["coordinator"][c]
  /\ b["coordinator"]["native"] = b0["coordinator"]["native"]
  /\ b["quoteAdapter"] = b0["quoteAdapter"] /\ b["poolAdapter"] = b0["poolAdapter"]

\* With the wrapped coins of the coordinator: what swaps and refunds conserve.
AllNative(b) == NativeOf(b) + b["coordinator"]["wbnb"]

\* Until it is sold or refunded, what the coordinator has wrapped belongs to the
\* call.
HoldsNative ==
  \/ tx.phase \in {"refunding", "returning"}
  \/ tx.phase = "buying" /\ tx.wrapped

\* What has not been sold or sent back is what the call has left to spend.
NativeOwed ==
  IF InCall /\ HoldsNative
    THEN NativeOf(bal) + Unspent(bal, "wbnb") = NativeOf(before)
    ELSE NativeOf(bal) = NativeOf(before)

\* What a call knows: the balances it began with and what it has to spend.
CallOK ==
  InCall =>
    /\ tx.saved = before /\ tx.base = before["coordinator"]
    /\ tx.phase = "refunding" => ~tx.wrapped
    /\ tx.phase = "returning" => tx.wrapped
    /\ tx.phase \in {"refunding", "buying"} => Mine[Quote] >= Base(Quote) + tx.quoteOut

\* The direct coordinator ends with exactly what it had of the coins of the call.
NothingLeft ==
  ~InCall /\ coordinator = "direct" =>
    \A c \in traded : bal["coordinator"][c] = before["coordinator"][c]

PurchaseInv == Types /\ NothingTaken(bal, before) /\ CallOK /\ NothingLeft /\ NativeOwed

----------------------------------------------------------------------------
(* Moving coins *)

\* A transfer moves n of one coin; a quote coin may keep some of it back.
LEMMA GiveIs ==
  ASSUME NEW b \in Balances, NEW from \in Holder, NEW to \in Holder, from # to,
         NEW c \in Coin, NEW n \in Int, NEW tax \in Nat
  PROVE  /\ Give(b, from, to, c, n, tax) \in Balances
         /\ \A h \in Holder, d \in Coin :
              Give(b, from, to, c, n, tax)[h][d] =
                IF d # c THEN b[h][d]
                ELSE IF h = from THEN b[h][d] - n
                ELSE IF h = to
                  THEN b[h][d] + n - (IF c = "quote" THEN Less(tax, n) ELSE 0)
                ELSE b[h][d]
<1> DEFINE kept == IF c = "quote" THEN Less(tax, n) ELSE 0
           debited == [b EXCEPT ![from][c] = @ - n]
<1>1. kept \in Int
  BY DEF Less
<1>2. /\ debited \in Balances
      /\ \A h \in Holder, d \in Coin :
           debited[h][d] = IF h = from /\ d = c THEN b[h][d] - n ELSE b[h][d]
  BY DEF Balances
<1> HIDE DEF debited, kept
<1>3. /\ [debited EXCEPT ![to][c] = @ + n - kept] \in Balances
      /\ \A h \in Holder, d \in Coin :
           [debited EXCEPT ![to][c] = @ + n - kept][h][d] =
             IF h = to /\ d = c THEN debited[h][d] + n - kept ELSE debited[h][d]
  BY <1>1, <1>2 DEF Balances
<1>4. Give(b, from, to, c, n, tax) = [debited EXCEPT ![to][c] = @ + n - kept]
  BY DEF Give, debited, kept
<1> QED
  BY <1>1, <1>2, <1>3, <1>4 DEF kept

\* Without a tax nothing is kept back.
LEMMA GiveAll ==
  ASSUME NEW b \in Balances, NEW from \in Holder, NEW to \in Holder, from # to,
         NEW c \in Coin, NEW n \in Nat
  PROVE  /\ Give(b, from, to, c, n, 0) \in Balances
         /\ \A h \in Holder, d \in Coin :
              Give(b, from, to, c, n, 0)[h][d] =
                IF d # c THEN b[h][d]
                ELSE IF h = from THEN b[h][d] - n
                ELSE IF h = to THEN b[h][d] + n
                ELSE b[h][d]
<1>1. Less(0, n) = 0
  BY DEF Less
<1>2. 0 \in Nat /\ n \in Int
  OBVIOUS
<1>3. \A h \in Holder, d \in Coin : b[h][d] \in Int
  BY DEF Balances
<1> QED
  BY <1>1, <1>2, <1>3, GiveIs

\* Balances that agree at every coin are equal.
LEMMA SameBalances ==
  ASSUME NEW b \in Balances, NEW b2 \in Balances, NEW h \in Holder,
         \A c \in Coin : b2[h][c] = b[h][c]
  PROVE  b2[h] = b[h]
BY DEF Balances

\* The router takes one coin of one holder and pays another coin to one.
Swaps(b, e, from, to, in, out, taken, paid, got) ==
  /\ e \in Balances
  /\ \A h \in Holder, d \in Coin :
       e[h][d] = IF d = in THEN (IF h = from THEN b[h][d] - taken
                                 ELSE IF h = "router" THEN b[h][d] + taken
                                 ELSE b[h][d])
                 ELSE IF d = out THEN (IF h = "router" THEN b[h][d] - paid
                                       ELSE IF h = to THEN b[h][d] + got
                                       ELSE b[h][d])
                 ELSE b[h][d]

\* The router takes what it was approved at most.
LEMMA RouterSwapsIs ==
  ASSUME NEW b \in Balances, NEW a \in [Ours -> [Coin -> Nat]],
         NEW from \in Ours, NEW to \in Holder \ {"router"},
         NEW in \in Coin, NEW out \in Coin, in # out, NEW min \in Int,
         NEW s \in RouterSwaps(b, a, from, in, to, out, min)
  PROVE  \E taken \in 0..a[from][in], paid \in Int, got \in Int :
           /\ s.approved = [a EXCEPT ![from][in] = @ - taken]
           /\ Swaps(b, s.bal, from, to, in, out, taken, paid, got)
<1>1. PICK taken \in 0..Less(a[from][in], b[from][in]),
           paid \in min..Less(MaxOut, b["router"][out]), tax \in Taxes :
        s = [bal |-> Give(Give(b, from, "router", in, taken, 0), "router", to, out, paid, tax),
             approved |-> [a EXCEPT ![from][in] = @ - taken]]
  BY DEF RouterSwaps
<1> DEFINE mid == Give(b, from, "router", in, taken, 0)
           kept == IF out = "quote" THEN Less(tax, paid) ELSE 0
           got == paid - kept
<1>2. taken \in 0..a[from][in] /\ taken \in Nat /\ paid \in Int /\ tax \in Nat
  <2>1. a[from][in] \in Nat /\ b[from][in] \in Int
    BY DEF Balances, Holder
  <2> QED
    BY <2>1, AdapterAssumption DEF Less
<1>3. kept \in Int /\ got \in Int
  BY <1>2 DEF Less
<1>4. s.bal = Give(mid, "router", to, out, paid, tax) /\ s.approved = [a EXCEPT ![from][in] = @ - taken]
  BY <1>1
<1>5. from \in Holder /\ from # "router" /\ "router" \in Holder /\ to \in Holder /\ to # "router"
  BY DEF Holder, Ours
<1>6. /\ mid \in Balances
      /\ \A h \in Holder, d \in Coin :
           mid[h][d] = IF d # in THEN b[h][d]
                       ELSE IF h = from THEN b[h][d] - taken
                       ELSE IF h = "router" THEN b[h][d] + taken ELSE b[h][d]
  BY <1>2, <1>5, GiveAll
<1> HIDE DEF mid
<1>7. /\ s.bal \in Balances
      /\ \A h \in Holder, d \in Coin :
           s.bal[h][d] = IF d # out THEN mid[h][d]
                         ELSE IF h = "router" THEN mid[h][d] - paid
                         ELSE IF h = to THEN mid[h][d] + paid - kept
                         ELSE mid[h][d]
  BY <1>2, <1>4, <1>5, <1>6, GiveIs
<1>8. \A h \in Holder, d \in Coin : b[h][d] \in Int
  BY DEF Balances
<1> HIDE DEF kept
<1>9. Swaps(b, s.bal, from, to, in, out, taken, paid, got)
  BY <1>2, <1>3, <1>5, <1>6, <1>7, <1>8 DEF Swaps
<1> QED
  BY <1>2, <1>3, <1>4, <1>9

\* An approval that is given and cleared leaves none.
LEMMA ApprovalsClear ==
  ASSUME NEW h \in Ours, NEW c \in Coin, NEW n \in Nat, NEW taken \in Int
  PROVE  /\ Approve(NoApproval, h, c, n) \in [Ours -> [Coin -> Nat]]
         /\ Approve(NoApproval, h, c, n)[h][c] = n
         /\ Approve(Approve(NoApproval, h, c, n), h, c, 0) = NoApproval
         /\ ClearApproval([Approve(NoApproval, h, c, n) EXCEPT ![h][c] = @ - taken], h, c)
              = NoApproval
<1>1. NoApproval \in [Ours -> [Coin -> Nat]]
  BY DEF NoApproval
<1>2. NoApproval[h][c] = 0 /\ NoApproval = [NoApproval EXCEPT ![h][c] = 0]
  BY <1>1 DEF NoApproval
<1>3. \A m, k : [[NoApproval EXCEPT ![h][c] = m] EXCEPT ![h][c] = k]
                  = [NoApproval EXCEPT ![h][c] = k]
  BY <1>1
<1>4. /\ Approve(NoApproval, h, c, n) = [NoApproval EXCEPT ![h][c] = n]
      /\ Approve(NoApproval, h, c, n)[h][c] = n
      /\ Approve(NoApproval, h, c, n) \in [Ours -> [Coin -> Nat]]
  BY <1>1 DEF Approve
<1>5. [Approve(NoApproval, h, c, n) EXCEPT ![h][c] = @ - taken]
        = [NoApproval EXCEPT ![h][c] = n - taken]
  BY <1>1, <1>3, <1>4
<1>6. /\ [[NoApproval EXCEPT ![h][c] = n] EXCEPT ![h][c] = 0] = NoApproval
      /\ [[NoApproval EXCEPT ![h][c] = n - taken] EXCEPT ![h][c] = 0] = NoApproval
  BY <1>2, <1>3
<1>7. /\ [Approve(NoApproval, h, c, n) EXCEPT ![h][c] = 0] = NoApproval
      /\ [[Approve(NoApproval, h, c, n) EXCEPT ![h][c] = @ - taken] EXCEPT ![h][c] = 0]
           = NoApproval
  BY <1>4, <1>5, <1>6, Zenon
<1> QED
  BY <1>4, <1>7 DEF ClearApproval, Approve

\* What a swap of the coordinator leaves: no approval, the adapters as they
\* were, no more than the amount taken, and no native coin lost.
Swapped(b, s, in, out, amount) ==
  /\ s.bal \in Balances /\ s.approved = NoApproval
  /\ s.bal["quoteAdapter"] = b["quoteAdapter"] /\ s.bal["poolAdapter"] = b["poolAdapter"]
  /\ s.bal["coordinator"][in] >= b["coordinator"][in] - amount
  /\ \A c \in Coin \ {in, out} : s.bal["coordinator"][c] = b["coordinator"][c]
  /\ AllNative(s.bal) = AllNative(b)

\* The coordinator's own swap through the router
LEMMA DirectSwapped ==
  ASSUME NEW b \in Balances, NEW amount \in Nat, NEW to \in {"coordinator", "buyer"},
         NEW in \in {"wbnb", "quote"}, NEW out \in {"quote", "token"}, in # out, NEW min \in Int,
         NEW s \in RouterSwaps(b, Approve(NoApproval, "coordinator", in, amount),
                               "coordinator", in, to, out, min)
  PROVE  Swapped(b, [s EXCEPT !.approved = ClearApproval(@, "coordinator", in)],
                 in, out, amount)
<1> DEFINE a == Approve(NoApproval, "coordinator", in, amount)
           t == [s EXCEPT !.approved = ClearApproval(@, "coordinator", in)]
<1>1. /\ "coordinator" \in Ours /\ to \in Holder \ {"router"} /\ in \in Coin /\ out \in Coin
      /\ {"coordinator", "quoteAdapter", "poolAdapter", "caller", "buyer", "router"} \subseteq Holder
  BY DEF Ours, Holder, Coin
<1>2. a \in [Ours -> [Coin -> Nat]] /\ a["coordinator"][in] = amount
  BY <1>1, ApprovalsClear
<1> HIDE DEF a
<1>3. PICK taken \in 0..amount, paid \in Int, got \in Int :
        /\ s.approved = [a EXCEPT !["coordinator"][in] = @ - taken]
        /\ Swaps(b, s.bal, "coordinator", to, in, out, taken, paid, got)
  BY <1>1, <1>2, RouterSwapsIs DEF a
<1>4. ClearApproval(s.approved, "coordinator", in) = NoApproval
  BY <1>1, <1>3, ApprovalsClear DEF a
<1>5. t.bal = s.bal /\ t.approved = NoApproval
  <2>1. \E x, y : s = [bal |-> x, approved |-> y]
    BY DEF RouterSwaps
  <2> QED
    BY <2>1, <1>4
<1> HIDE DEF t
<1>6. \A h \in Holder, c \in Coin : b[h][c] \in Int /\ s.bal[h][c] \in Int
  BY <1>3 DEF Swaps, Balances
<1>7. s.bal["quoteAdapter"] = b["quoteAdapter"] /\ s.bal["poolAdapter"] = b["poolAdapter"]
  BY <1>1, <1>3, SameBalances DEF Swaps
<1>8. /\ s.bal["coordinator"][in] >= b["coordinator"][in] - amount
      /\ \A c \in Coin \ {in, out} : s.bal["coordinator"][c] = b["coordinator"][c]
  BY <1>1, <1>3, <1>6 DEF Swaps
<1>9. AllNative(s.bal) = AllNative(b)
  <2>1. "native" \in Coin /\ "wbnb" \in Coin /\ out # "wbnb" /\ in # "native" /\ out # "native"
    BY DEF Coin
  <2>2. s.bal["caller"]["native"] = b["caller"]["native"] /\ s.bal["buyer"]["native"] = b["buyer"]["native"]
    BY <1>1, <1>3, <2>1 DEF Swaps
  <2>3. s.bal["router"]["wbnb"] + s.bal["coordinator"]["wbnb"]
          = b["router"]["wbnb"] + b["coordinator"]["wbnb"]
    BY <1>1, <1>3, <1>6, <2>1 DEF Swaps
  <2> QED
    BY <1>1, <1>6, <2>1, <2>2, <2>3 DEF AllNative, NativeOf
<1> QED
  BY <1>3, <1>5, <1>7, <1>8, <1>9 DEF Swapped, Swaps, t

\* The same through an adapter: that it is left with what it had means that the
\* router took all it was given.
LEMMA AdapterSwapped ==
  ASSUME NEW b \in Balances, NEW amount \in Nat, NEW h \in {"quoteAdapter", "poolAdapter"},
         NEW in \in {"wbnb", "quote"}, NEW out \in {"quote", "token"}, in # out, NEW min \in Int,
         NEW s \in AdapterSwaps(b, Approve(NoApproval, "coordinator", in, amount),
                                h, in, out, amount, min)
  PROVE  Swapped(b, s, in, out, amount)
<1> DEFINE a == Approve(NoApproval, "coordinator", in, amount)
           pulled == Give(b, "coordinator", h, in, amount, 0)
           approvals == Approve(Approve(a, "coordinator", in, 0), h, in, amount)
<1>1. /\ "coordinator" \in Ours /\ h \in Ours \ {"coordinator"} /\ h \in Holder \ {"router"}
      /\ in \in Coin /\ out \in Coin
      /\ {"coordinator", "quoteAdapter", "poolAdapter", "caller", "buyer", "router"} \subseteq Holder
      /\ "coordinator" # "router"
  BY DEF Ours, Holder, Coin
<1>2. PICK r \in RouterSwaps(pulled, approvals, h, in, h, out, min), tax \in Taxes :
        /\ s = [bal |-> Give(r.bal, h, "coordinator", out, r.bal[h][out] - b[h][out], tax),
                approved |-> ClearApproval(r.approved, h, in)]
        /\ s.bal[h] = b[h]
  <2> HIDE DEF a
  <2> QED
    BY DEF AdapterSwaps, Restored, a
<1>3. approvals = Approve(NoApproval, h, in, amount)
  <2>1. 0 \in Int /\ "coordinator" \in Ours /\ in \in Coin
    BY <1>1
  <2>2. Approve(a, "coordinator", in, 0) = NoApproval
    BY <2>1, ApprovalsClear
  <2> QED
    BY <2>2
<1> HIDE DEF a, pulled, approvals
<1>4. approvals \in [Ours -> [Coin -> Nat]] /\ approvals[h][in] = amount
  <2>1. 0 \in Int /\ h \in Ours /\ in \in Coin
    BY <1>1
  <2> QED
    BY <1>3, <2>1, ApprovalsClear
<1>5. /\ pulled \in Balances
      /\ \A k \in Holder, d \in Coin :
           pulled[k][d] = IF d # in THEN b[k][d]
                          ELSE IF k = "coordinator" THEN b[k][d] - amount
                          ELSE IF k = h THEN b[k][d] + amount ELSE b[k][d]
  <2>1. "coordinator" \in Holder /\ h \in Holder /\ "coordinator" # h /\ in \in Coin
    BY <1>1
  <2> QED
    BY <2>1, GiveAll DEF pulled
<1>6. PICK taken \in 0..amount, paid \in Int, got \in Int :
        /\ r.approved = [approvals EXCEPT ![h][in] = @ - taken]
        /\ Swaps(pulled, r.bal, h, h, in, out, taken, paid, got)
  BY <1>1, <1>4, <1>5, RouterSwapsIs
<1>7. s.approved = NoApproval
  <2>1. taken \in Int /\ h \in Ours /\ in \in Coin
    BY <1>1, <1>6
  <2>2. ClearApproval([Approve(NoApproval, h, in, amount) EXCEPT ![h][in] = @ - taken], h, in)
          = NoApproval
    BY <2>1, ApprovalsClear
  <2>3. s.approved = ClearApproval(r.approved, h, in)
    BY <1>2
  <2> QED
    BY <1>3, <1>6, <2>2, <2>3
<1>8. \A k \in Holder, d \in Coin : b[k][d] \in Int /\ r.bal[k][d] \in Int /\ pulled[k][d] \in Int
  BY <1>5, <1>6 DEF Swaps, Balances
<1> DEFINE gross == r.bal[h][out] - b[h][out]
           kept == IF out = "quote" THEN Less(tax, gross) ELSE 0
<1>9. gross \in Int /\ tax \in Nat /\ kept \in Int
  BY <1>1, <1>8, AdapterAssumption DEF Less
<1>10. /\ s.bal \in Balances
       /\ \A k \in Holder, d \in Coin :
            s.bal[k][d] = IF d # out THEN r.bal[k][d]
                          ELSE IF k = h THEN r.bal[k][d] - gross
                          ELSE IF k = "coordinator" THEN r.bal[k][d] + gross - kept
                          ELSE r.bal[k][d]
  <2> HIDE DEF gross
  <2>1. s.bal = Give(r.bal, h, "coordinator", out, gross, tax)
    BY <1>2 DEF gross
  <2>2. r.bal \in Balances /\ h \in Holder /\ "coordinator" \in Holder /\ h # "coordinator"
    BY <1>1, <1>6 DEF Swaps
  <2> QED
    BY <1>1, <1>9, <2>1, <2>2, GiveIs
<1> HIDE DEF gross, kept
<1>11. taken = amount
  <2>1. s.bal[h][in] = b[h][in] + amount - taken
    BY <1>1, <1>5, <1>6, <1>8, <1>10 DEF Swaps
  <2>2. s.bal[h][in] = b[h][in] /\ b[h][in] \in Int
    BY <1>1, <1>2, <1>8
  <2> QED
    BY <1>6, <2>1, <2>2
<1>12. /\ \A k \in Holder : s.bal[k][in] = IF k = "coordinator" THEN b[k][in] - amount
                                           ELSE IF k = "router" THEN b[k][in] + amount
                                           ELSE b[k][in]
       /\ \A k \in Holder, d \in Coin \ {in, out} : s.bal[k][d] = b[k][d]
       /\ \A k \in Holder \ {h, "coordinator", "router"} : s.bal[k][out] = b[k][out]
  <2>1. ASSUME NEW k \in Holder
        PROVE  s.bal[k][in] = IF k = "coordinator" THEN b[k][in] - amount
                              ELSE IF k = "router" THEN b[k][in] + amount
                              ELSE b[k][in]
    BY <1>1, <1>5, <1>6, <1>8, <1>10, <1>11 DEF Swaps
  <2>2. ASSUME NEW k \in Holder, NEW d \in Coin \ {in, out} PROVE s.bal[k][d] = b[k][d]
    BY <1>5, <1>6, <1>10 DEF Swaps
  <2>3. ASSUME NEW k \in Holder \ {h, "coordinator", "router"} PROVE s.bal[k][out] = b[k][out]
    BY <1>1, <1>5, <1>6, <1>10 DEF Swaps
  <2> QED
    BY <2>1, <2>2, <2>3
<1>13. s.bal["quoteAdapter"] = b["quoteAdapter"] /\ s.bal["poolAdapter"] = b["poolAdapter"]
  <2>1. ASSUME NEW k \in {"quoteAdapter", "poolAdapter"} PROVE s.bal[k] = b[k]
    <3>1. CASE k = h
      BY <3>1, <1>2
    <3>2. CASE k # h
      <4>1. k \in Holder \ {h, "coordinator", "router"}
        BY <1>1, <3>2
      <4>2. \A d \in Coin : s.bal[k][d] = b[k][d]
        BY <4>1, <1>1, <1>12
      <4> QED
        BY <4>1, <4>2, <1>10, SameBalances
    <3> QED
      BY <3>1, <3>2
  <2> QED
    BY <2>1
<1>14. AllNative(s.bal) = AllNative(b)
  <2>1. "native" \in Coin \ {in, out} /\ "wbnb" \in Coin /\ out # "wbnb"
    BY DEF Coin
  <2>2. s.bal["caller"]["native"] = b["caller"]["native"] /\ s.bal["buyer"]["native"] = b["buyer"]["native"]
    BY <1>1, <1>12, <2>1
  <2>3. s.bal["router"]["wbnb"] + s.bal["coordinator"]["wbnb"]
          = b["router"]["wbnb"] + b["coordinator"]["wbnb"]
    <3>1. CASE in = "wbnb"
      BY <3>1, <1>1, <1>8, <1>12
    <3>2. CASE in # "wbnb"
      BY <3>2, <1>1, <1>12, <2>1
    <3> QED
      BY <3>1, <3>2
  <2>4. /\ s.bal["router"]["wbnb"] \in Int /\ s.bal["coordinator"]["wbnb"] \in Int
        /\ \A k \in Holder, d \in Coin : s.bal[k][d] \in Int
    BY <1>1, <1>10, <2>1 DEF Balances
  <2> QED
    BY <1>1, <1>8, <2>1, <2>2, <2>3, <2>4 DEF AllNative, NativeOf
<1> QED
  BY <1>1, <1>7, <1>8, <1>10, <1>12, <1>13, <1>14 DEF Swapped

\* The swap for quote coins, by either coordinator
LEMMA QuoteSwapped ==
  ASSUME NEW b \in Balances, NEW amount \in Nat, NEW min \in Int,
         NEW s \in QuoteSwaps(b, Approve(NoApproval, "coordinator", "wbnb", amount), amount, min)
  PROVE  Swapped(b, s, "wbnb", "quote", amount)
<1> DEFINE a == Approve(NoApproval, "coordinator", "wbnb", amount)
<1>1. CASE coordinator = "adapters"
  <2>1. s \in AdapterSwaps(b, a, "quoteAdapter", "wbnb", "quote", amount, min)
    <3> HIDE DEF a
    <3> QED
      BY <1>1 DEF QuoteSwaps, SwapWbnbForQuote, a
  <2> QED
    BY <2>1, AdapterSwapped
<1>2. CASE coordinator # "adapters"
  <2>1. PICK r \in RouterSwaps(b, a, "coordinator", "wbnb", "coordinator", "quote", min) :
          s = [r EXCEPT !.approved = ClearApproval(@, "coordinator", "wbnb")]
    <3> HIDE DEF a
    <3> QED
      BY <1>2 DEF QuoteSwaps, a
  <2> QED
    BY <2>1, DirectSwapped
<1> QED
  BY <1>1, <1>2

\* The purchase itself, by either coordinator
LEMMA TokenSwapped ==
  ASSUME NEW b \in Balances, NEW amount \in Nat, NEW min \in Int, NEW q \in {"wbnb", "quote"},
         NEW s \in TokenSwaps(b, Approve(NoApproval, "coordinator", q, amount), q, amount, min)
  PROVE  Swapped(b, s, q, "token", amount)
<1> DEFINE a == Approve(NoApproval, "coordinator", q, amount)
<1>1. CASE coordinator = "adapters"
  <2>1. s \in AdapterSwaps(b, a, "poolAdapter", q, "token", amount, min)
    <3> HIDE DEF a
    <3> QED
      BY <1>1 DEF TokenSwaps, BuyWithQuote, a
  <2> QED
    BY <2>1, AdapterSwapped
<1>2. CASE coordinator # "adapters"
  <2>1. PICK r \in RouterSwaps(b, a, "coordinator", q, "buyer", "token", min) :
          s = [r EXCEPT !.approved = ClearApproval(@, "coordinator", q)]
    <3> HIDE DEF a
    <3> QED
      BY <1>2 DEF TokenSwaps, a
  <2> QED
    BY <2>1, DirectSwapped
<1> QED
  BY <1>1, <1>2

----------------------------------------------------------------------------
(* The steps of a call *)

LEMMA Names ==
  /\ {"native", "wbnb", "quote", "token", "stable"} \subseteq Coin
  /\ {"coordinator", "quoteAdapter", "poolAdapter", "caller", "buyer", "router"} \subseteq Holder
  /\ Ours \subseteq Holder /\ "buyer" \notin Ours /\ "coordinator" \in Ours
  /\ Quote \in {"wbnb", "quote"}
BY DEF Coin, Holder, Ours, Quote

\* A coordinator that loses nothing of its coins and adapters left as they were:
\* nothing is taken.
LEMMA TakesNothing ==
  ASSUME NEW b0 \in Balances, NEW b \in Balances, NEW b2 \in Balances,
         NothingTaken(b, b0),
         \A c \in Coin : b2["coordinator"][c] >= b0["coordinator"][c],
         b2["coordinator"]["native"] = b["coordinator"]["native"],
         b2["quoteAdapter"] = b["quoteAdapter"], b2["poolAdapter"] = b["poolAdapter"]
  PROVE  NothingTaken(b2, b0)
BY DEF NothingTaken

\* Unwrapping and sending what is left: the coordinator keeps what it had
\* before the call, and what the buyer may send it meanwhile.
LEMMA RefundKeeps ==
  ASSUME bal \in Balances, before \in Balances, NothingTaken(bal, before), tx.base = before["coordinator"],
         Refund("wbnb")
  PROVE  /\ bal' \in Balances /\ NothingTaken(bal', before)
         /\ \A c \in Coin \ {"wbnb"} : bal'["coordinator"][c] >= bal["coordinator"][c]
         /\ NativeOf(bal') = NativeOf(bal) + Unspent(bal, "wbnb")
<1> DEFINE n == Unspent(bal, "wbnb")
           refunded == [bal EXCEPT !["coordinator"]["wbnb"] = @ - n, !["buyer"]["native"] = @ + n]
<1>1. n \in Int /\ \A h \in Holder, c \in Coin : bal[h][c] \in Int /\ before[h][c] \in Int
  BY Names DEF Balances, Unspent, Base
<1>2. bal["coordinator"]["wbnb"] - n = before["coordinator"]["wbnb"]
  BY Names, <1>1 DEF Unspent, Base
<1> HIDE DEF n
<1>3. /\ refunded \in Balances
      /\ \A h \in Holder, c \in Coin :
           refunded[h][c] = IF h = "coordinator" /\ c = "wbnb" THEN bal[h][c] - n
                            ELSE IF h = "buyer" /\ c = "native" THEN bal[h][c] + n
                            ELSE bal[h][c]
  <2> DEFINE debited == [bal EXCEPT !["coordinator"]["wbnb"] = @ - n]
  <2>1. /\ debited \in Balances
        /\ \A h \in Holder, c \in Coin :
             debited[h][c] = IF h = "coordinator" /\ c = "wbnb" THEN bal[h][c] - n
                             ELSE bal[h][c]
    BY Names, <1>1 DEF Balances
  <2>2. refunded = [debited EXCEPT !["buyer"]["native"] = @ + n]
    OBVIOUS
  <2> HIDE DEF debited, refunded
  <2>3. /\ [debited EXCEPT !["buyer"]["native"] = @ + n] \in Balances
        /\ \A h \in Holder, c \in Coin :
             [debited EXCEPT !["buyer"]["native"] = @ + n][h][c] =
               IF h = "buyer" /\ c = "native" THEN debited[h][c] + n ELSE debited[h][c]
    BY Names, <1>1, <2>1 DEF Balances
  <2> QED
    BY <2>1, <2>2, <2>3
<1>4. NativeOf(refunded) = NativeOf(bal) + n
  <2> HIDE DEF refunded
  <2> QED
    BY Names, <1>1, <1>3 DEF NativeOf
<1>5. refunded["quoteAdapter"] = bal["quoteAdapter"] /\ refunded["poolAdapter"] = bal["poolAdapter"]
  <2> HIDE DEF refunded
  <2> QED
    BY <1>3, Names, SameBalances
<1> HIDE DEF refunded
<1>6. NothingTaken(refunded, before)
  <2>1. \A c \in Coin : refunded["coordinator"][c] >= before["coordinator"][c]
    BY Names, <1>1, <1>2, <1>3 DEF NothingTaken
  <2>2. refunded["coordinator"]["native"] = bal["coordinator"]["native"]
    BY Names, <1>3
  <2> QED
    BY <2>1, <2>2, <1>3, <1>5, TakesNothing
<1>7. CASE bal' = refunded
  BY Names, <1>1, <1>3, <1>4, <1>6, <1>7 DEF n
<1>8. CASE \E g \in {"wbnb", "quote"} : bal' = Give(refunded, "buyer", "coordinator", g, 1, 0)
  <2>1. PICK g \in {"wbnb", "quote"} : bal' = Give(refunded, "buyer", "coordinator", g, 1, 0)
    BY <1>8
  <2>2. /\ bal' \in Balances
        /\ \A h \in Holder, c \in Coin :
             bal'[h][c] = IF c # g THEN refunded[h][c]
                          ELSE IF h = "buyer" THEN refunded[h][c] - 1
                          ELSE IF h = "coordinator" THEN refunded[h][c] + 1
                          ELSE refunded[h][c]
    <3>1. /\ "buyer" \in Holder /\ "coordinator" \in Holder /\ "buyer" # "coordinator"
          /\ g \in Coin /\ 1 \in Nat
      BY Names
    <3> QED
      BY <1>3, <2>1, <3>1, GiveAll
  <2>3. \A h \in Holder, c \in Coin : refunded[h][c] \in Int /\ bal'[h][c] \in Int
    BY <1>3, <2>2 DEF Balances
  <2>4. \A c \in Coin : bal'["coordinator"][c] >= refunded["coordinator"][c]
    BY <2>2, <2>3, Names
  <2>5. bal'["quoteAdapter"] = refunded["quoteAdapter"] /\ bal'["poolAdapter"] = refunded["poolAdapter"]
    BY <1>3, <2>2, Names, SameBalances
  <2>6. NativeOf(bal') = NativeOf(refunded)
    <3>1. /\ bal'["caller"]["native"] = refunded["caller"]["native"]
          /\ bal'["buyer"]["native"] = refunded["buyer"]["native"]
          /\ bal'["router"]["wbnb"] = refunded["router"]["wbnb"]
      BY <2>2, Names
    <3> QED
      BY <3>1 DEF NativeOf
  <2>7. \A c \in Coin : bal'["coordinator"][c] >= before["coordinator"][c]
    BY <1>1, <1>6, <2>3, <2>4, Names DEF NothingTaken
  <2>8. bal'["coordinator"]["native"] = refunded["coordinator"]["native"]
    BY <2>2, Names
  <2>9. NothingTaken(bal', before)
    BY <1>3, <1>6, <2>2, <2>5, <2>7, <2>8, TakesNothing
  <2>10. \A c \in Coin \ {"wbnb"} : bal'["coordinator"][c] >= bal["coordinator"][c]
    BY <1>3, <2>4, Names
  <2> QED
    BY <1>4, <2>2, <2>6, <2>9, <2>10 DEF n
<1> QED
  BY <1>7, <1>8 DEF Refund, n, refunded

\* Between calls nothing of a call is remembered.
LEMMA IdleOrCall ==
  ASSUME Types
  PROVE  /\ ~InCall => tx = Idle
         /\ InCall => tx \in Calls
BY DEF Types, InCall, Idle, Calls

\* Validate, wrap, and swap for quote coins.
LEMMA BuyKeeps == ASSUME PurchaseInv, Buy PROVE PurchaseInv'
<1> USE Names
<1>1. bal \in Balances /\ approved = NoApproval /\ traded \subseteq Coin /\ ~InCall
  BY DEF PurchaseInv, Types, Buy
<1>2. before' = bal /\ traded' = traded /\ coordinator' = coordinator
  BY DEF Buy
<1>3. PICK amount \in 1..Less(MaxIn, bal["caller"]["native"]), wrapped \in BOOLEAN,
           minQuote \in 1..MaxOut, minToken \in 1..MaxOut :
        LET deposited == [bal EXCEPT !["caller"]["native"] = @ - amount,
                                     !["coordinator"]["wbnb"] = @ + amount]
            call(phase, out) ==
              [phase |-> phase, wrapped |-> wrapped, minToken |-> minToken,
               base |-> Mine, quoteOut |-> out, saved |-> bal]
        IN \/ /\ wrapped /\ amount >= minQuote
              /\ bal' = deposited /\ tx' = call("buying", amount) /\ UNCHANGED approved
           \/ /\ ~wrapped
              /\ \E s \in QuoteSwaps(deposited, Approve(approved, "coordinator", "wbnb", amount),
                                     amount, minQuote) :
                   LET out == s.bal["coordinator"]["quote"] - Mine["quote"]
                       unspent == s.bal["coordinator"]["wbnb"] - Mine["wbnb"]
                   IN /\ out >= minQuote
                      /\ bal' = s.bal /\ approved' = s.approved
                      /\ tx' = call(IF unspent > 0 THEN "refunding" ELSE "buying", out)
  BY DEF Buy
<1> DEFINE debited == [bal EXCEPT !["caller"]["native"] = @ - amount]
           deposited == [bal EXCEPT !["caller"]["native"] = @ - amount,
                                    !["coordinator"]["wbnb"] = @ + amount]
           call(phase, out) ==
             [phase |-> phase, wrapped |-> wrapped, minToken |-> minToken,
              base |-> bal["coordinator"], quoteOut |-> out, saved |-> bal]
<1>4. amount \in Nat /\ amount >= 1 /\ minQuote \in Int /\ minQuote >= 1 /\ minToken \in Int
  OBVIOUS
<1>5. \A h \in Holder, c \in Coin : bal[h][c] \in Int
  BY <1>1 DEF Balances
<1>6. /\ debited \in Balances
      /\ \A h \in Holder, c \in Coin :
           debited[h][c] = IF h = "caller" /\ c = "native" THEN bal[h][c] - amount
                           ELSE bal[h][c]
  BY <1>1, <1>4, <1>5 DEF Balances
<1>7. /\ deposited \in Balances
      /\ \A h \in Holder, c \in Coin :
           deposited[h][c] = IF h = "caller" /\ c = "native" THEN bal[h][c] - amount
                             ELSE IF h = "coordinator" /\ c = "wbnb" THEN bal[h][c] + amount
                             ELSE bal[h][c]
  <2>1. deposited = [debited EXCEPT !["coordinator"]["wbnb"] = @ + amount]
    OBVIOUS
  <2> HIDE DEF debited, deposited
  <2>2. /\ [debited EXCEPT !["coordinator"]["wbnb"] = @ + amount] \in Balances
        /\ \A h \in Holder, c \in Coin :
             [debited EXCEPT !["coordinator"]["wbnb"] = @ + amount][h][c] =
               IF h = "coordinator" /\ c = "wbnb" THEN debited[h][c] + amount
               ELSE debited[h][c]
    BY <1>4, <1>5, <1>6 DEF Balances
  <2> QED
    BY <1>6, <2>1, <2>2
<1>8. \/ /\ wrapped /\ bal' = deposited /\ tx' = call("buying", amount) /\ approved' = approved
      \/ /\ ~wrapped
         /\ \E s \in QuoteSwaps(deposited, Approve(NoApproval, "coordinator", "wbnb", amount),
                                amount, minQuote) :
              LET out == s.bal["coordinator"]["quote"] - bal["coordinator"]["quote"]
                  unspent == s.bal["coordinator"]["wbnb"] - bal["coordinator"]["wbnb"]
              IN /\ out >= minQuote
                 /\ bal' = s.bal /\ approved' = s.approved
                 /\ tx' = call(IF unspent > 0 THEN "refunding" ELSE "buying", out)
  BY <1>1, <1>3 DEF Mine
<1> HIDE DEF debited, deposited
<1>9. /\ AllNative(deposited) = AllNative(bal)
      /\ deposited["quoteAdapter"] = bal["quoteAdapter"]
      /\ deposited["poolAdapter"] = bal["poolAdapter"]
  <2>1. AllNative(deposited) = AllNative(bal)
    BY <1>4, <1>5, <1>7 DEF AllNative, NativeOf
  <2> QED
    BY <1>1, <1>7, <2>1, SameBalances
<1>10. \A phase \in {"refunding", "buying"}, out \in Nat :
         /\ call(phase, out) \in Calls
         /\ call(phase, out).saved = bal /\ call(phase, out).base = bal["coordinator"]
         /\ call(phase, out).phase = phase /\ call(phase, out).wrapped = wrapped
         /\ call(phase, out).quoteOut = out
  <2>1. bal["coordinator"] \in [Coin -> Int]
    BY <1>1 DEF Balances
  <2> QED
    BY <1>1, <1>4, <2>1 DEF Calls
<1> HIDE DEF call
<1>11. ASSUME NEW phase \in {"refunding", "buying"}, NEW out \in Nat, tx' = call(phase, out),
              bal' \in Balances, approved' = NoApproval, NothingTaken(bal', bal),
              phase = "refunding" => ~wrapped, AllNative(bal') = AllNative(bal),
              phase = "buying" /\ ~wrapped => bal'["coordinator"]["wbnb"] = bal["coordinator"]["wbnb"],
              bal'["coordinator"][IF wrapped THEN "wbnb" ELSE "quote"]
                >= bal["coordinator"][IF wrapped THEN "wbnb" ELSE "quote"] + out
       PROVE  PurchaseInv'
  <2>1. /\ tx' \in Calls /\ tx'.saved = bal /\ tx'.base = bal["coordinator"]
        /\ tx'.phase = phase /\ tx'.wrapped = wrapped /\ tx'.quoteOut = out
    BY <1>10, <1>11
  <2>2. Types'
    BY <1>1, <1>2, <1>11, <2>1 DEF Types
  <2>3. CallOK'
    BY <1>2, <1>11, <2>1 DEF CallOK, Quote, Mine, Base
  <2>4. NothingLeft'
    BY <2>1 DEF NothingLeft, InCall
  <2>5. NativeOwed'
    <3>1. /\ NativeOf(bal)' \in Int /\ NativeOf(bal) \in Int
          /\ bal'["coordinator"]["wbnb"] \in Int /\ bal["coordinator"]["wbnb"] \in Int
      BY <1>5, <1>11 DEF NativeOf, Balances
    <3>2. NativeOf(bal)' + bal'["coordinator"]["wbnb"]
            = NativeOf(bal) + bal["coordinator"]["wbnb"]
      BY <1>11 DEF AllNative, NativeOf
    <3>3. NativeOf(before)' = NativeOf(bal) /\ InCall'
      BY <1>2, <2>1 DEF NativeOf, InCall
    <3>4. CASE HoldsNative'
      <4>1. Unspent(bal, "wbnb")' = bal'["coordinator"]["wbnb"] - bal["coordinator"]["wbnb"]
        BY <2>1 DEF Unspent, Base
      <4>2. NativeOf(bal)' + Unspent(bal, "wbnb")' = NativeOf(before)'
        BY <3>1, <3>2, <3>3, <4>1
      <4> QED
        BY <3>3, <3>4, <4>2 DEF NativeOwed
    <3>5. CASE ~HoldsNative'
      <4>1. phase = "buying" /\ ~wrapped
        BY <2>1, <3>5 DEF HoldsNative
      <4>2. NativeOf(bal)' = NativeOf(before)'
        BY <1>11, <3>1, <3>2, <3>3, <4>1
      <4> QED
        BY <3>5, <4>2 DEF NativeOwed
    <3> QED
      BY <3>4, <3>5
  <2> QED
    BY <1>2, <1>11, <2>2, <2>3, <2>4, <2>5 DEF PurchaseInv
<1>12. NothingTaken(bal, bal)
  BY <1>5 DEF NothingTaken
<1>13. CASE wrapped /\ bal' = deposited /\ tx' = call("buying", amount) /\ approved' = approved
  <2>1. /\ \A c \in Coin : bal'["coordinator"][c] >= bal["coordinator"][c]
        /\ bal'["coordinator"]["native"] = bal["coordinator"]["native"]
        /\ bal'["coordinator"]["wbnb"] >= bal["coordinator"]["wbnb"] + amount
    BY <1>4, <1>5, <1>7, <1>13
  <2>2. NothingTaken(bal', bal)
    BY <1>1, <1>7, <1>9, <1>12, <1>13, <2>1, TakesNothing
  <2> QED
    BY <1>1, <1>4, <1>7, <1>9, <1>11, <1>13, <2>1, <2>2
<1>14. ASSUME ~wrapped,
              NEW s \in QuoteSwaps(deposited, Approve(NoApproval, "coordinator", "wbnb", amount),
                                   amount, minQuote),
              s.bal["coordinator"]["quote"] - bal["coordinator"]["quote"] >= minQuote,
              bal' = s.bal, approved' = s.approved,
              tx' = call(IF s.bal["coordinator"]["wbnb"] - bal["coordinator"]["wbnb"] > 0
                           THEN "refunding" ELSE "buying",
                         s.bal["coordinator"]["quote"] - bal["coordinator"]["quote"])
       PROVE  PurchaseInv'
  <2>1. Swapped(deposited, s, "wbnb", "quote", amount)
    BY <1>4, <1>7, QuoteSwapped
  <2>2. /\ bal' \in Balances /\ approved' = NoApproval
        /\ \A c \in Coin : bal'["coordinator"][c] \in Int
    BY <1>14, <2>1 DEF Swapped, Balances
  <2>3. bal'["coordinator"]["wbnb"] >= bal["coordinator"]["wbnb"]
    BY <1>4, <1>5, <1>7, <1>14, <2>1, <2>2 DEF Swapped
  <2>4. \A c \in Coin \ {"wbnb", "quote"} : bal'["coordinator"][c] = bal["coordinator"][c]
    BY <1>7, <1>14, <2>1 DEF Swapped
  <2>5. bal'["coordinator"]["quote"] >= bal["coordinator"]["quote"] + minQuote
    BY <1>4, <1>5, <1>14, <2>2
  <2>6. /\ \A c \in Coin : bal'["coordinator"][c] >= bal["coordinator"][c]
        /\ bal'["coordinator"]["native"] = bal["coordinator"]["native"]
    BY <1>4, <1>5, <2>2, <2>3, <2>4, <2>5
  <2>7. /\ bal'["quoteAdapter"] = bal["quoteAdapter"] /\ bal'["poolAdapter"] = bal["poolAdapter"]
        /\ AllNative(bal') = AllNative(bal)
    BY <1>9, <1>14, <2>1 DEF Swapped
  <2>8. NothingTaken(bal', bal)
    BY <1>1, <1>12, <2>2, <2>6, <2>7, TakesNothing
  <2> DEFINE out == bal'["coordinator"]["quote"] - bal["coordinator"]["quote"]
             phase == IF bal'["coordinator"]["wbnb"] - bal["coordinator"]["wbnb"] > 0
                        THEN "refunding" ELSE "buying"
  <2>9. /\ out \in Nat /\ bal'["coordinator"]["quote"] >= bal["coordinator"]["quote"] + out
    BY <1>4, <1>5, <2>2, <2>5
  <2>10. tx' = call(phase, out) /\ phase \in {"refunding", "buying"}
    BY <1>14
  <2>11. phase = "buying" => bal'["coordinator"]["wbnb"] = bal["coordinator"]["wbnb"]
    BY <1>5, <2>2, <2>3
  <2> HIDE DEF out, phase
  <2> QED
    BY <1>11, <1>14, <2>2, <2>7, <2>8, <2>9, <2>10, <2>11
<1> QED
  BY <1>8, <1>13, <1>14

\* Sending back what the swap has left.
LEMMA RefundUnspentKeeps == ASSUME PurchaseInv, RefundUnspent PROVE PurchaseInv'
<1> USE Names
<1>1. InCall /\ tx.phase = "refunding"
  BY DEF RefundUnspent, InCall
<1>2. /\ tx \in Calls /\ bal \in Balances /\ before \in Balances /\ approved = NoApproval
      /\ traded \subseteq Coin
  BY <1>1, IdleOrCall DEF PurchaseInv, Types
<1>3. /\ tx.saved = before /\ tx.base = before["coordinator"] /\ ~tx.wrapped
      /\ bal["coordinator"]["quote"] >= before["coordinator"]["quote"] + tx.quoteOut
  BY <1>1 DEF PurchaseInv, CallOK, Quote, Mine, Base
<1>4. /\ Refund("wbnb") /\ tx' = [tx EXCEPT !.phase = "buying"]
      /\ before' = before /\ approved' = approved /\ traded' = traded
  BY DEF RefundUnspent
<1>5. /\ bal' \in Balances /\ NothingTaken(bal', before)
      /\ bal'["coordinator"]["quote"] >= bal["coordinator"]["quote"]
      /\ NativeOf(bal') = NativeOf(bal) + Unspent(bal, "wbnb")
  BY <1>2, <1>3, <1>4, RefundKeeps DEF PurchaseInv
<1>6. /\ tx' \in Calls /\ tx'.phase = "buying" /\ tx'.wrapped = tx.wrapped /\ tx'.saved = tx.saved
      /\ tx'.base = tx.base /\ tx'.quoteOut = tx.quoteOut /\ tx.quoteOut \in Nat
  BY <1>2, <1>4 DEF Calls
<1>7. Types'
  BY <1>2, <1>4, <1>5, <1>6 DEF Types
<1>8. CallOK'
  <2>1. \A c \in Coin : bal'["coordinator"][c] \in Int /\ bal["coordinator"][c] \in Int
                        /\ before["coordinator"][c] \in Int
    BY <1>2, <1>5 DEF Balances
  <2>2. bal'["coordinator"]["quote"] >= before["coordinator"]["quote"] + tx.quoteOut
    BY <1>3, <1>5, <1>6, <2>1
  <2> QED
    BY <1>3, <1>4, <1>6, <2>2 DEF CallOK, Quote, Mine, Base
<1>9. NothingLeft'
  BY <1>6 DEF NothingLeft, InCall
<1>10. NativeOwed'
  <2>1. NativeOf(bal) + Unspent(bal, "wbnb") = NativeOf(before)
    BY <1>1 DEF PurchaseInv, NativeOwed, HoldsNative
  <2>2. ~HoldsNative'
    BY <1>3, <1>6 DEF HoldsNative
  <2> QED
    BY <1>4, <1>5, <2>1, <2>2 DEF NativeOwed
<1> QED
  BY <1>4, <1>5, <1>7, <1>8, <1>9, <1>10 DEF PurchaseInv

\* Sending back the wrapped coins the purchase has left.
LEMMA ReturnDustKeeps == ASSUME PurchaseInv, ReturnDust PROVE PurchaseInv'
<1> USE Names
<1>1. InCall /\ tx.phase = "returning"
  BY DEF ReturnDust, InCall
<1>2. /\ tx \in Calls /\ bal \in Balances /\ before \in Balances /\ approved = NoApproval
      /\ traded \subseteq Coin
  BY <1>1, IdleOrCall DEF PurchaseInv, Types
<1>3. tx.saved = before /\ tx.base = before["coordinator"] /\ Quote = "wbnb"
  BY <1>1 DEF PurchaseInv, CallOK, Quote
<1>4. /\ Refund("wbnb") /\ tx' = [tx EXCEPT !.phase = "settling"]
      /\ before' = before /\ approved' = approved /\ traded' = traded
  BY <1>3 DEF ReturnDust
<1>5. /\ bal' \in Balances /\ NothingTaken(bal', before)
      /\ NativeOf(bal') = NativeOf(bal) + Unspent(bal, "wbnb")
  BY <1>2, <1>3, <1>4, RefundKeeps DEF PurchaseInv
<1>6. /\ tx' \in Calls /\ tx'.phase = "settling" /\ tx'.saved = tx.saved
      /\ tx'.base = tx.base
  BY <1>2, <1>4 DEF Calls
<1>7. Types'
  BY <1>2, <1>4, <1>5, <1>6 DEF Types
<1>8. CallOK' /\ NothingLeft'
  BY <1>3, <1>4, <1>6 DEF CallOK, NothingLeft, InCall
<1>9. NativeOwed'
  <2>1. NativeOf(bal) + Unspent(bal, "wbnb") = NativeOf(before)
    BY <1>1 DEF PurchaseInv, NativeOwed, HoldsNative
  <2>2. ~HoldsNative'
    BY <1>6 DEF HoldsNative
  <2> QED
    BY <1>4, <1>5, <2>1, <2>2 DEF NativeOwed
<1> QED
  BY <1>4, <1>5, <1>7, <1>8, <1>9 DEF PurchaseInv

\* The purchase: what the swap takes is what the call has to spend.
LEMMA BuyTokensKeeps == ASSUME PurchaseInv, BuyTokens PROVE PurchaseInv'
<1> USE Names
<1>1. InCall /\ tx.phase = "buying"
  BY DEF BuyTokens, InCall
<1>2. /\ tx \in Calls /\ bal \in Balances /\ before \in Balances /\ approved = NoApproval
      /\ traded \subseteq Coin /\ NothingTaken(bal, before)
  BY <1>1, IdleOrCall DEF PurchaseInv, Types
<1>3. /\ tx.quoteOut \in Nat /\ tx.minToken \in Int
      /\ tx.saved = before /\ tx.base = before["coordinator"]
      /\ bal["coordinator"][Quote] >= before["coordinator"][Quote] + tx.quoteOut
  BY <1>1, <1>2 DEF PurchaseInv, CallOK, Mine, Base, Calls
<1> DEFINE q == Quote
<1>4. PICK s \in TokenSwaps(bal, Approve(approved, "coordinator", q, tx.quoteOut),
                            q, tx.quoteOut, tx.minToken), tax \in Taxes :
        LET tokens == s.bal["coordinator"]["token"] - Mine["token"]
            held == Give(s.bal, "coordinator", "buyer", "token", tokens, 0)
            dust == QuoteDust(held)
        IN /\ approved' = s.approved
           /\ IF q = "wbnb" /\ dust > 0
                THEN bal' = held /\ tx' = [tx EXCEPT !.phase = "returning"]
                ELSE /\ bal' = Give(held, "coordinator", "buyer", q, dust, tax)
                     /\ tx' = [tx EXCEPT !.phase = "settling"]
  <2> HIDE DEF q
  <2> QED
    BY DEF BuyTokens, q
<1>5. before' = before /\ traded' = traded /\ coordinator' = coordinator
  BY DEF BuyTokens
<1>6. q \in {"wbnb", "quote"} /\ q \in Coin /\ q # "token" /\ (q = "wbnb" => tx.wrapped)
  BY DEF Quote
<1> HIDE DEF q
<1>7. Swapped(bal, s, q, "token", tx.quoteOut)
  BY <1>2, <1>3, <1>6, TokenSwapped
<1> DEFINE tokens == s.bal["coordinator"]["token"] - bal["coordinator"]["token"]
           held == Give(s.bal, "coordinator", "buyer", "token", tokens, 0)
           dust == QuoteDust(held)
<1>8. /\ s.bal \in Balances /\ s.approved = NoApproval
      /\ \A h \in Holder, c \in Coin : s.bal[h][c] \in Int /\ bal[h][c] \in Int
                                       /\ before[h][c] \in Int
  BY <1>2, <1>7 DEF Swapped, Balances
<1>9. tokens \in Int /\ 0 \in Nat /\ "coordinator" # "buyer"
  BY <1>8
<1>10. /\ approved' = NoApproval
       /\ \/ q = "wbnb" /\ bal' = held /\ tx' = [tx EXCEPT !.phase = "returning"]
          \/ /\ q = "wbnb" => ~(dust > 0)
             /\ bal' = Give(held, "coordinator", "buyer", q, dust, tax)
             /\ tx' = [tx EXCEPT !.phase = "settling"]
  BY <1>4, <1>8 DEF Mine
<1> HIDE DEF tokens
<1>11. /\ held \in Balances
       /\ \A h \in Holder, c \in Coin :
            held[h][c] = IF c # "token" THEN s.bal[h][c]
                         ELSE IF h = "coordinator" THEN s.bal[h][c] - tokens
                         ELSE IF h = "buyer"
                           THEN s.bal[h][c] + tokens - (IF "token" = "quote" THEN Less(0, tokens) ELSE 0)
                         ELSE s.bal[h][c]
  <2>1. "coordinator" \in Holder /\ "buyer" \in Holder /\ "token" \in Coin
    OBVIOUS
  <2> QED
    BY <1>8, <1>9, <2>1, GiveIs
<1> HIDE DEF held
<1>12. /\ held["coordinator"]["token"] = bal["coordinator"]["token"]
       /\ held["coordinator"][q] >= before["coordinator"][q]
       /\ \A c \in Coin \ {q} : held["coordinator"][c] = bal["coordinator"][c]
  <2>1. held["coordinator"]["token"] = bal["coordinator"]["token"]
    BY <1>8, <1>11 DEF tokens
  <2>2. held["coordinator"][q] >= before["coordinator"][q]
    <3>1. s.bal["coordinator"][q] >= bal["coordinator"][q] - tx.quoteOut
      BY <1>7 DEF Swapped
    <3>2. bal["coordinator"][q] >= before["coordinator"][q] + tx.quoteOut
      BY <1>3 DEF q
    <3>3. held["coordinator"][q] = s.bal["coordinator"][q]
      BY <1>6, <1>11
    <3> QED
      BY <1>3, <1>6, <1>8, <3>1, <3>2, <3>3
  <2>3. \A c \in Coin \ {q} : held["coordinator"][c] = bal["coordinator"][c]
    BY <1>7, <1>11, <2>1 DEF Swapped
  <2> QED
    BY <2>1, <2>2, <2>3
<1>13. /\ held["quoteAdapter"] = bal["quoteAdapter"] /\ held["poolAdapter"] = bal["poolAdapter"]
       /\ AllNative(held) = AllNative(bal)
  <2>1. held["quoteAdapter"] = s.bal["quoteAdapter"] /\ held["poolAdapter"] = s.bal["poolAdapter"]
    BY <1>8, <1>11, SameBalances
  <2>2. AllNative(held) = AllNative(s.bal)
    BY <1>11 DEF AllNative, NativeOf
  <2> QED
    BY <1>7, <2>1, <2>2 DEF Swapped
<1>14. NothingTaken(held, before)
  <2>1. \A c \in Coin : held["coordinator"][c] >= before["coordinator"][c]
    BY <1>2, <1>12 DEF NothingTaken
  <2>2. held["coordinator"]["native"] = bal["coordinator"]["native"]
    BY <1>6, <1>12
  <2> QED
    BY <1>2, <1>11, <1>13, <2>1, <2>2, TakesNothing
<1>15. /\ NativeOf(held) \in Int /\ NativeOf(before) \in Int
       /\ q = "wbnb" => NativeOf(held) + (held["coordinator"]["wbnb"] - before["coordinator"]["wbnb"])
                          = NativeOf(before)
       /\ q # "wbnb" => NativeOf(held) = NativeOf(before)
  <2>1. /\ NativeOf(held) \in Int /\ NativeOf(before) \in Int /\ NativeOf(bal) \in Int
        /\ held["coordinator"]["wbnb"] \in Int /\ before["coordinator"]["wbnb"] \in Int
        /\ bal["coordinator"]["wbnb"] \in Int
    BY <1>2, <1>11 DEF NativeOf, Balances
  <2>2. NativeOf(held) + held["coordinator"]["wbnb"] = NativeOf(bal) + bal["coordinator"]["wbnb"]
    BY <1>13 DEF AllNative
  <2>3. CASE q = "wbnb"
    <3>1. NativeOf(bal) + (bal["coordinator"]["wbnb"] - before["coordinator"]["wbnb"])
            = NativeOf(before)
      BY <1>1, <1>3, <1>6, <2>3
         DEF PurchaseInv, NativeOwed, HoldsNative, Unspent, Base
    <3>2. NativeOf(held) + (held["coordinator"]["wbnb"] - before["coordinator"]["wbnb"])
            = NativeOf(before)
      BY <2>1, <2>2, <3>1
    <3> QED
      BY <2>1, <2>3, <3>2
  <2>4. CASE q # "wbnb"
    <3>1. ~tx.wrapped
      BY <2>4 DEF q, Quote
    <3>2. NativeOf(bal) = NativeOf(before)
      BY <1>1, <3>1 DEF PurchaseInv, NativeOwed, HoldsNative
    <3>3. held["coordinator"]["wbnb"] - bal["coordinator"]["wbnb"] = 0
      BY <1>6, <1>12, <2>1, <2>4
    <3>4. NativeOf(held) = NativeOf(before)
      BY <2>1, <2>2, <3>2, <3>3
    <3> QED
      BY <2>1, <2>4, <3>4
  <2> QED
    BY <2>1, <2>3, <2>4
<1>16. \A phase \in {"returning", "settling"} :
         /\ [tx EXCEPT !.phase = phase] \in Calls
         /\ [tx EXCEPT !.phase = phase].phase = phase
         /\ [tx EXCEPT !.phase = phase].wrapped = tx.wrapped
         /\ [tx EXCEPT !.phase = phase].saved = tx.saved
         /\ [tx EXCEPT !.phase = phase].base = tx.base
  BY <1>2 DEF Calls
<1>17. ASSUME NEW phase \in {"returning", "settling"}, tx' = [tx EXCEPT !.phase = phase],
              phase = "returning" => q = "wbnb", bal' \in Balances, NothingTaken(bal', before),
              NativeOf(bal') + (IF phase = "returning"
                                  THEN bal'["coordinator"]["wbnb"] - before["coordinator"]["wbnb"]
                                  ELSE 0) = NativeOf(before),
              NativeOf(bal') \in Int
       PROVE  PurchaseInv'
  <2>1. /\ tx' \in Calls /\ tx'.phase = phase /\ tx'.wrapped = tx.wrapped
        /\ tx'.saved = tx.saved /\ tx'.base = tx.base
    BY <1>16, <1>17
  <2>2. Types'
    BY <1>2, <1>5, <1>10, <1>17, <2>1 DEF Types
  <2>3. CallOK' /\ NothingLeft'
    BY <1>3, <1>5, <1>6, <1>17, <2>1 DEF CallOK, NothingLeft, InCall
  <2>4. NativeOwed'
    <3>1. HoldsNative' <=> phase = "returning"
      BY <2>1 DEF HoldsNative
    <3>2. InCall' /\ Unspent(bal, "wbnb")' = bal'["coordinator"]["wbnb"] - before["coordinator"]["wbnb"]
      BY <1>3, <2>1 DEF InCall, Unspent, Base
    <3>3. NativeOf(bal)' = NativeOf(bal') /\ NativeOf(before)' = NativeOf(before)
      BY <1>5 DEF NativeOf
    <3>4. CASE phase = "returning"
      BY <1>17, <3>1, <3>2, <3>3, <3>4 DEF NativeOwed
    <3>5. CASE phase # "returning"
      <4>1. NativeOf(bal)' = NativeOf(before)'
        BY <1>17, <3>3, <3>5
      <4> QED
        BY <3>1, <3>5, <4>1 DEF NativeOwed
    <3> QED
      BY <3>4, <3>5
  <2> QED
    BY <1>5, <1>17, <2>2, <2>3, <2>4 DEF PurchaseInv
<1>18. CASE q = "wbnb" /\ bal' = held /\ tx' = [tx EXCEPT !.phase = "returning"]
  BY <1>11, <1>14, <1>17, <1>18, <1>15
<1>19. CASE /\ q = "wbnb" => ~(dust > 0)
            /\ bal' = Give(held, "coordinator", "buyer", q, dust, tax)
            /\ tx' = [tx EXCEPT !.phase = "settling"]
  <2>1. \A h \in Holder, c \in Coin : held[h][c] \in Int
    BY <1>11 DEF Balances
  <2>2. dust \in Nat /\ held["coordinator"][q] - dust = before["coordinator"][q]
    BY <1>3, <1>6, <1>8, <1>12, <2>1 DEF QuoteDust, Base, q
  <2> HIDE DEF dust
  <2>3. tax \in Nat /\ "coordinator" \in Holder /\ "buyer" \in Holder
    BY AdapterAssumption
  <2> DEFINE kept == IF q = "quote" THEN Less(tax, dust) ELSE 0
  <2>4. /\ bal' \in Balances
        /\ \A h \in Holder, c \in Coin :
             bal'[h][c] = IF c # q THEN held[h][c]
                          ELSE IF h = "coordinator" THEN held[h][c] - dust
                          ELSE IF h = "buyer" THEN held[h][c] + dust - kept
                          ELSE held[h][c]
    <3>1. dust \in Int /\ bal' = Give(held, "coordinator", "buyer", q, dust, tax)
      BY <1>19, <2>2
    <3>2. held \in Balances /\ q \in Coin /\ "coordinator" # "buyer"
      BY <1>6, <1>9, <1>11
    <3> QED
      BY <2>3, <3>1, <3>2, GiveIs
  <2>5. \A c \in Coin : bal'["coordinator"][c] >= before["coordinator"][c]
    <3>1. bal'["coordinator"][q] = before["coordinator"][q]
      BY <1>6, <2>2, <2>4
    <3> QED
      BY <1>6, <1>8, <1>14, <2>4, <3>1 DEF NothingTaken
  <2>6. bal'["coordinator"]["native"] = held["coordinator"]["native"]
    BY <1>6, <2>4
  <2>7. bal'["quoteAdapter"] = held["quoteAdapter"] /\ bal'["poolAdapter"] = held["poolAdapter"]
    BY <1>11, <2>4, SameBalances
  <2>8. NativeOf(bal') = NativeOf(before) /\ NativeOf(bal') \in Int
    <3>1. CASE q = "wbnb"
      <4>1. dust = 0 /\ kept = 0
        BY <1>19, <2>2, <3>1
      <4>2. NativeOf(bal') = NativeOf(held)
        BY <2>1, <2>4, <3>1, <4>1 DEF NativeOf
      <4>3. held["coordinator"]["wbnb"] - before["coordinator"]["wbnb"] = 0
        BY <1>8, <2>1, <2>2, <3>1, <4>1
      <4> QED
        BY <1>15, <3>1, <4>2, <4>3
    <3>2. CASE q # "wbnb"
      <4>1. NativeOf(bal') = NativeOf(held)
        BY <1>6, <2>4, <3>2 DEF NativeOf
      <4> QED
        BY <1>15, <3>2, <4>1
    <3> QED
      BY <3>1, <3>2
  <2>9. NothingTaken(bal', before)
    BY <1>2, <1>11, <1>14, <2>4, <2>5, <2>6, <2>7, TakesNothing
  <2> QED
    BY <1>17, <1>19, <1>15, <2>4, <2>8, <2>9
<1> QED
  BY <1>10, <1>18, <1>19

\* A call that ends: the direct coordinator has looked what it is left with.
LEMMA SettleKeeps == ASSUME PurchaseInv, Settle PROVE PurchaseInv'
<1> USE Names
<1>1. InCall /\ tx \in Calls
  <2>1. InCall
    BY DEF Settle, InCall
  <2> QED
    BY <2>1, IdleOrCall DEF PurchaseInv
<1>2. /\ tx' = Idle /\ traded' = {"native", "wbnb", Quote} /\ bal' = bal /\ before' = before
      /\ approved' = approved /\ coordinator' = coordinator /\ NoResidual
  BY DEF Settle
<1>3. ~InCall'
  BY <1>2 DEF InCall, Idle
<1>4. Types'
  BY <1>2 DEF PurchaseInv, Types
<1>5. NothingLeft'
  BY <1>1, <1>2 DEF PurchaseInv, CallOK, NothingLeft, NoResidual, Mine, Base
<1>6. NativeOwed'
  <2>1. ~HoldsNative
    BY DEF Settle, HoldsNative
  <2> QED
    BY <1>2, <1>3, <2>1 DEF PurchaseInv, NativeOwed
<1> QED
  BY <1>2, <1>3, <1>4, <1>5, <1>6 DEF PurchaseInv, CallOK

\* A call that fails gives back the balances it began with.
LEMMA RevertKeeps == ASSUME PurchaseInv, Revert PROVE PurchaseInv'
<1> USE Names
<1>1. tx.saved = before /\ before \in Balances
  BY DEF Revert, PurchaseInv, CallOK, Types
<1>2. /\ bal' = before /\ approved' = NoApproval /\ tx' = Idle /\ before' = before
      /\ traded' = {"native", "wbnb", "quote", "token"}
  BY <1>1 DEF Revert, NoApproval
<1>3. ~InCall'
  BY <1>2 DEF InCall, Idle
<1>4. Types'
  BY <1>1, <1>2 DEF Types
<1>5. NothingTaken(bal', before')
  BY <1>1, <1>2 DEF NothingTaken, Balances
<1> QED
  BY <1>2, <1>3, <1>4, <1>5 DEF PurchaseInv, CallOK, NothingLeft, NativeOwed

\* Coins sent to a contract between calls become its own.
LEMMA GiftKeeps == ASSUME PurchaseInv, Gift PROVE PurchaseInv'
<1> USE Names
<1>1. /\ bal \in Balances /\ before \in Balances /\ approved = NoApproval /\ tx = Idle
      /\ traded \subseteq Coin /\ NothingTaken(bal, before) /\ ~InCall
  BY IdleOrCall DEF Gift, PurchaseInv, Types
<1>2. PICK h \in Ours, c \in {"wbnb", "quote"} :
        /\ bal' = Give(bal, "buyer", h, c, 1, 0)
        /\ before' = Give(before, "buyer", h, c, 1, 0)
  BY DEF Gift
<1>3. tx' = tx /\ approved' = approved /\ traded' = traded /\ coordinator' = coordinator
  BY DEF Gift
<1>4. ASSUME NEW b \in Balances
      PROVE  /\ Give(b, "buyer", h, c, 1, 0) \in Balances
             /\ \A k \in Holder, d \in Coin :
                  Give(b, "buyer", h, c, 1, 0)[k][d] =
                    IF d # c THEN b[k][d]
                    ELSE IF k = "buyer" THEN b[k][d] - 1
                    ELSE IF k = h THEN b[k][d] + 1
                    ELSE b[k][d]
  <2>1. "buyer" \in Holder /\ h \in Holder /\ "buyer" # h /\ c \in Coin /\ 1 \in Nat
    OBVIOUS
  <2> HIDE Names
  <2> QED
    BY <2>1, GiveAll
<1>5. /\ bal' \in Balances /\ before' \in Balances
      /\ \A k \in Holder, d \in Coin :
           /\ bal[k][d] \in Int /\ before[k][d] \in Int
           /\ bal'[k][d] - bal[k][d] = before'[k][d] - before[k][d]
           /\ bal'[k][d] \in Int /\ before'[k][d] \in Int
  <2>1. bal' \in Balances /\ before' \in Balances
    BY <1>1, <1>2, <1>4
  <2>2. \A k \in Holder, d \in Coin :
          /\ bal[k][d] \in Int /\ before[k][d] \in Int
          /\ bal'[k][d] \in Int /\ before'[k][d] \in Int
    BY <1>1, <2>1 DEF Balances
  <2>3. \A k \in Holder, d \in Coin : bal'[k][d] - bal[k][d] = before'[k][d] - before[k][d]
    BY <1>1, <1>2, <1>4, <2>2
  <2> QED
    BY <2>1, <2>2, <2>3
<1>6. \A k \in {"quoteAdapter", "poolAdapter"} : bal'[k] = before'[k]
  <2> SUFFICES ASSUME NEW k \in {"quoteAdapter", "poolAdapter"} PROVE bal'[k] = before'[k]
    OBVIOUS
  <2>1. bal[k] = before[k]
    BY <1>1 DEF NothingTaken
  <2>2. ASSUME NEW d \in Coin PROVE bal'[k][d] = before'[k][d]
    <3>1. /\ bal[k][d] = before[k][d] /\ bal[k][d] \in Int
          /\ bal'[k][d] - bal[k][d] = before'[k][d] - before[k][d]
          /\ bal'[k][d] \in Int /\ before'[k][d] \in Int
      BY <1>5, <2>1
    <3> QED
      BY <3>1
  <2> QED
    BY <1>5, <2>2, SameBalances
<1>7. /\ \A d \in Coin : bal'["coordinator"][d] >= before'["coordinator"][d]
      /\ bal'["coordinator"]["native"] = before'["coordinator"]["native"]
  BY <1>1, <1>5 DEF NothingTaken
<1>8. NativeOwed'
  <2>1. NativeOf(bal) = NativeOf(before) /\ ~InCall'
    BY <1>1, <1>3 DEF PurchaseInv, NativeOwed, InCall
  <2>2. NativeOf(bal)' = NativeOf(before)'
    BY <1>5, <2>1 DEF NativeOf
  <2> QED
    BY <2>1, <2>2 DEF NativeOwed
<1>9. NothingTaken(bal', before')
  BY <1>6, <1>7 DEF NothingTaken
<1>10. Types'
  BY <1>1, <1>3, <1>5 DEF Types
<1>11. NothingLeft'
  <2> SUFFICES ASSUME coordinator = "direct", NEW d \in traded
               PROVE  bal'["coordinator"][d] = before'["coordinator"][d]
    BY <1>3 DEF NothingLeft
  <2>1. bal["coordinator"][d] = before["coordinator"][d] /\ d \in Coin
    BY <1>1 DEF PurchaseInv, NothingLeft
  <2>2. /\ bal["coordinator"][d] \in Int /\ before["coordinator"][d] \in Int
        /\ bal'["coordinator"][d] - bal["coordinator"][d]
             = before'["coordinator"][d] - before["coordinator"][d]
        /\ bal'["coordinator"][d] \in Int /\ before'["coordinator"][d] \in Int
    BY <1>5, <2>1
  <2>3. bal'["coordinator"][d] - before'["coordinator"][d] = 0
    BY <2>1, <2>2
  <2> QED
    BY <2>2, <2>3
<1> QED
  BY <1>1, <1>3, <1>8, <1>9, <1>10, <1>11 DEF PurchaseInv, CallOK, InCall

\* Pools and routes appear between calls and move nothing.
LEMMA SetupKeeps == ASSUME PurchaseInv, Setup PROVE PurchaseInv'
<1>1. /\ bal' = bal /\ approved' = approved /\ tx' = tx /\ before' = before
      /\ traded' = traded /\ coordinator' = coordinator
  BY DEF Setup, CreatePool, RegisterQuoteRoute, RegisterLaunchPool
<1> QED
  BY <1>1 DEF PurchaseInv, Types, CallOK, NothingLeft, InCall, Mine, Quote, Base, NativeOwed,
              HoldsNative, Unspent

LEMMA StutterKeeps == ASSUME PurchaseInv, UNCHANGED vars PROVE PurchaseInv'
BY DEF vars, PurchaseInv, Types, CallOK, NothingLeft, InCall, Mine, Quote, Base, NativeOwed,
       HoldsNative, Unspent

LEMMA PurchaseInit == Init => PurchaseInv
<1> SUFFICES ASSUME Init PROVE PurchaseInv
  OBVIOUS
<1>1. /\ approved = NoApproval /\ tx = Idle /\ before = bal /\ traded = {}
  BY DEF Init, AdaptersInit, NoApproval
<1>2. bal \in Balances
  BY AdapterAssumption, BuyAssumption DEF Init, AdaptersInit, Balances
<1>3. NothingTaken(bal, before)
  BY <1>1, <1>2, Names DEF NothingTaken, Balances
<1> QED
  BY <1>1, <1>2, <1>3 DEF PurchaseInv, Types, CallOK, NothingLeft, InCall, Idle, NativeOwed

LEMMA PurchaseNext == PurchaseInv /\ [Next]_vars => PurchaseInv'
<1> SUFFICES ASSUME PurchaseInv, [Next]_vars PROVE PurchaseInv'
  OBVIOUS
<1>1. CASE Gift
  BY <1>1, GiftKeeps
<1>2. CASE Setup
  BY <1>2, SetupKeeps
<1>3. CASE Buy
  BY <1>3, BuyKeeps
<1>4. CASE RefundUnspent
  BY <1>4, RefundUnspentKeeps
<1>5. CASE BuyTokens
  BY <1>5, BuyTokensKeeps
<1>6. CASE ReturnDust
  BY <1>6, ReturnDustKeeps
<1>7. CASE Settle
  BY <1>7, SettleKeeps
<1>8. CASE Revert
  BY <1>8, RevertKeeps
<1>9. CASE UNCHANGED vars
  BY <1>9, StutterKeeps
<1> QED
  BY <1>1, <1>2, <1>3, <1>4, <1>5, <1>6, <1>7, <1>8, <1>9 DEF Next

\* The invariant of a purchase holds at every step, whatever swaps fill only in
\* part and whatever a buyer does when it is paid.
THEOREM PurchaseInvHolds == Spec => []PurchaseInv
BY PurchaseInit, PurchaseNext, PTL DEF Spec

\* Nobody's coins pay for another one's purchase: between calls the contracts
\* have at least what they had, the adapters exactly that, and the direct
\* coordinator exactly that of the coins of the call.
THEOREM HoldingsStayUntouched == Spec => []HoldingsUntouched
<1>1. PurchaseInv => HoldingsUntouched
  <2> SUFFICES ASSUME PurchaseInv, ~InCall PROVE HoldingsUntouched
    BY DEF HoldingsUntouched
  <2>1. bal \in Balances /\ before \in Balances /\ NothingTaken(bal, before)
    BY DEF PurchaseInv, Types
  <2>2. \A h \in Holder, c \in Coin : before[h][c] \in Int
    BY <2>1 DEF Balances
  <2>3. \A h \in Ours, c \in Coin : bal[h][c] >= before[h][c]
    BY <2>1, <2>2, Names DEF NothingTaken, Ours
  <2>4. \A h \in {"quoteAdapter", "poolAdapter"} : bal[h] = before[h]
    BY <2>1 DEF NothingTaken
  <2> QED
    BY <2>3, <2>4 DEF PurchaseInv, NothingLeft, HoldingsUntouched
<1> QED
  BY <1>1, PurchaseInvHolds, PTL

\* Between calls none of the native coins that were sent is left with one of our
\* contracts: what the caller paid was sold to the router or went back to the
\* buyer, for any amounts and however little a swap takes.  No approval is left.
THEOREM NativeStaysAccountedFor == Spec => []NativeAccountedFor
<1>1. PurchaseInv => NativeAccountedFor
  BY Names DEF PurchaseInv, Types, NativeOwed, NativeAccountedFor, NoApproval
<1> QED
  BY <1>1, PurchaseInvHolds, PTL
============================================================================
