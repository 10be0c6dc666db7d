------------------------------- MODULE Outbox -------------------------------
(***************************************************************************)
(* The outbox table as its readers see it: a finite set of event ids.  The *)
(* ids come from a sequence, so they may have gaps; they become visible in *)
(* ascending order, because every writer holds pg_advisory_xact_lock.      *)
(***************************************************************************)
EXTENDS Integers, FiniteSets

\* WHERE id > x.
After(ids, x) == { id \in ids : x < id }

\* ORDER BY id ASC LIMIT n; also the first n of a batch sent in order.
First(S, n) == { id \in S : Cardinality({ j \in S : j < id }) < n }

Highest(S) == CHOOSE id \in S : \A j \in S : j <= id

\* COALESCE(max(id), 0).
Newest(ids) == IF ids = {} THEN 0 ELSE Highest(ids)

\* Rows commit in the order of their ids.
MayAppend(ids, id) == \A j \in ids : j < id
============================================================================
