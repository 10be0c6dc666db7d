--------------------------- MODULE MCIndexerPair ---------------------------
(***************************************************************************)
(* Two indexer processes on one database, on a tree that forks at the      *)
(* first block and again at the second:                                    *)
(*                                                                         *)
(*   g - a1 - a2     m1 is launched in a2 or in b1.                        *)
(*    \    \ c2                                                            *)
(*     b1 - b2                                                             *)
(*                                                                         *)
(* While one process walks back from a2 to a1, the other can move the      *)
(* cursor to b2, of the same height: the first then makes a1 the cursor    *)
(* with b1 still canonical.                                                *)
(***************************************************************************)
EXTENDS Indexer, TLC

CONSTANTS i1, i2, g, a1, b1, a2, b2, c2, m1

MCBlock == {g, a1, b1, a2, b2, c2}

MCHeight ==
  [b \in MCBlock |-> CASE b = g -> 0 [] b \in {a1, b1} -> 1 [] OTHER -> 2]

MCParent ==
  [b \in MCBlock |-> CASE b \in {a2, c2} -> a1 [] b = b2 -> b1 [] OTHER -> g]

MCLaunchLogs == { [block |-> b, market |-> m1] : b \in {a2, b1} }

\* The two processes run the same program.
Processes == Permutations({i1, i2})

\* Bound: two rollbacks and no restarted attempt.
Bounded == generation <= 2 /\ \A i \in Indexer : loc[i].attempt = 0
============================================================================
