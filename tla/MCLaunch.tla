------------------------------ MODULE MCLaunch ------------------------------
(***************************************************************************)
(* Two accounts, the direct engine and another one, two token addresses,   *)
(* and three requests: one that names its version, one that takes the      *)
(* default, and one whose fees the direct engine does not support.         *)
(***************************************************************************)
EXTENDS DirectEngine, TLC

CONSTANTS ann, bob, direct, other, v1, v2, t0, t1, ref, codeA, x1, x2

Ask(creator, version, fee) ==
  [creator |-> creator, version |-> version, kind |-> "DIRECT", supply |-> 3,
   deadline |-> 2, mode |-> "STANDARD", swapFee |-> fee, rewardFee |-> 0, lpShare |-> 1,
   recipient |-> bob, rewardRecipient |-> NoAccount, reference |-> ref]

MCAccount == {ann, bob}
MCVersion == {v1, v2}
MCRequest == {Ask(ann, NoVersion, 0), Ask(bob, v1, 0), Ask(ann, v2, 1)}

Attest(r, time) ==
  [creator |-> r.creator, request |-> [r EXCEPT !.version = v1], reference |-> ref,
   observed |-> time, deadline |-> 2, liquid |-> TRUE]

MCAttestation == {Attest(Ask(ann, NoVersion, 0), 1), Attest(Ask(bob, v1, 0), 2)}

MCMinTick == -3

MCAddress == ({"token", "pool", "locker"} \X {t0, t1}) \cup {x1, x2}
MCRecordId == (MCVersion \X (1..2)) \cup {x1}

Returned(token, market, locker) ==
  [creator |-> ann, token |-> token, market |-> market, hook |-> NoAddress,
   vault |-> NoAddress, locker |-> locker, recordId |-> x1]

\* Its own contracts, the pool of a direct launch, and one contract in two roles.
MCForeign == {Returned(x1, x2, NoAddress), Returned(x1, <<"pool", t0>>, x2),
              Returned(x1, x2, x2)}
============================================================================
