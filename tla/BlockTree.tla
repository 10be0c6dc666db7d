----------------------------- MODULE BlockTree -----------------------------
(***************************************************************************)
(* Block hashes as the indexer sees them.  A hash fixes the block's number *)
(* and its parent, so both are functions of the hash; competing forks are  *)
(* different hashes of one height.  A chain is what one JSON-RPC node      *)
(* serves at one moment: one block per height, closed under parents.       *)
(***************************************************************************)
EXTENDS Integers, FiniteSets

CONSTANTS
  Block,           \* block hashes
  Height,          \* Height[b]: the number of block b
  Parent,          \* Parent[b]: the parent hash of block b
  BaselineNumber   \* firstStartBlock - 1, where the cursor is born

ASSUME BlockTreeAssumption ==
  /\ BaselineNumber \in Nat
  /\ Height \in [Block -> Nat]
  /\ Parent \in [Block -> Block]
  /\ \A b \in Block : Height[b] >= BaselineNumber
  /\ \A b \in Block : Height[b] > BaselineNumber => Height[Parent[b]] = Height[b] - 1

\* No two blocks of C share a height.
OnePerHeight(C) == \A b, c \in C : Height[b] = Height[c] => b = c

\* Every block of C above the baseline has its parent in C.
ParentClosed(C) == \A b \in C : Height[b] > BaselineNumber => Parent[b] \in C

\* h is the highest block of C.
IsHead(h, C) == h \in C /\ \A b \in C : Height[b] <= Height[h]

Chains ==
  { C \in SUBSET Block :
      OnePerHeight(C) /\ ParentClosed(C) /\ (\E h \in C : IsHead(h, C)) }

At(C, n) == { b \in C : Height[b] = n }

UpTo(C, n) == { b \in C : Height[b] <= n }

\* The head number of a chain, as eth_blockNumber reports it.
HeadNumber(C) == Height[CHOOSE h \in C : IsHead(h, C)]
============================================================================
