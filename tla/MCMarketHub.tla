---------------------------- MODULE MCMarketHub ----------------------------
(* Sockets and replay slots of the hub are interchangeable. *)
EXTENDS MarketHub, TLC

Interchangeable == Permutations(Socket) \cup Permutations(Slot)
============================================================================
