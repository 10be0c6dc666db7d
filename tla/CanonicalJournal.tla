-------------------------- MODULE CanonicalJournal --------------------------
(***************************************************************************)
(* What the indexer promises the readers of its tables: one journal of     *)
(* blocks that only grows by a child of its tip, and is only ever cut back *)
(* to a block it already holds, by at most MaxReorgDepth blocks, and never *)
(* without a new generation.                                               *)
(***************************************************************************)
EXTENDS BlockTree

CONSTANTS MaxReorgDepth, None

VARIABLES journal, journalTip, generation

journalVars == <<journal, journalTip, generation>>

JournalInit ==
  /\ journal = {}
  /\ journalTip = None
  /\ generation = 0

\* The first block, at the baseline of the registry.
Found(b) ==
  /\ journalTip = None
  /\ Height[b] = BaselineNumber
  /\ journal' = {b}
  /\ journalTip' = b
  /\ UNCHANGED generation

Extend(b) ==
  /\ journalTip # None
  /\ Height[b] = Height[journalTip] + 1
  /\ Parent[b] = journalTip
  /\ journal' = journal \cup {b}
  /\ journalTip' = b
  /\ UNCHANGED generation

Rewind(a) ==
  /\ journalTip # None
  /\ a \in journal
  /\ Height[journalTip] - Height[a] <= MaxReorgDepth
  /\ journal' = UpTo(journal, Height[a])
  /\ journalTip' = a
  /\ generation' = generation + 1

JournalNext == \E b \in Block : Found(b) \/ Extend(b) \/ Rewind(b)

JournalSpec == JournalInit /\ [][JournalNext]_journalVars
=============================================================================
