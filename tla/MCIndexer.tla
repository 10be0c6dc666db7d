----------------------------- MODULE MCIndexer -----------------------------
(***************************************************************************)
(* A small block tree for TLC.  The fork points are one, two and three     *)
(* blocks below the heads, so that a rollback keeps a market and loses its *)
(* trade, removes a market, or lies beyond MaxReorgDepth.                  *)
(*                                                                         *)
(*   g - x1 - a2 - a3         m1 is launched in x1 (and in y1), m2 in a2   *)
(*     \    \ b2 - b3         and b3; the swap of m1 with transaction t1   *)
(*      y1 - y2 - y3          is mined in a2 and again in b3.              *)
(***************************************************************************)
EXTENDS Indexer

CONSTANTS i1, g, x1, a2, a3, b2, b3, y1, y2, y3, m1, m2, t1, t2

MCBlock == {g, x1, a2, a3, b2, b3, y1, y2, y3}

MCHeight ==
  [b \in MCBlock |-> CASE b = g -> 0 [] b \in {x1, y1} -> 1
                       [] b \in {a2, b2, y2} -> 2 [] OTHER -> 3]

MCParent ==
  [b \in MCBlock |-> CASE b \in {g, x1, y1} -> g [] b \in {a2, b2} -> x1
                       [] b = a3 -> a2 [] b = b3 -> b2 [] b = y2 -> y1
                       [] OTHER -> y2]

MCLaunchLogs ==
  { [block |-> b, market |-> m1] : b \in {x1, y1} }
    \cup { [block |-> b, market |-> m2] : b \in {a2, b3} }

MCSwapLogs ==
  { [block |-> b, market |-> m1, tx |-> t1] : b \in {a2, b3} }
    \cup { [block |-> a3, market |-> m2, tx |-> t2] }
============================================================================
