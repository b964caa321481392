------------------------- MODULE MCMarketSnapshots -------------------------
(* Small instances of MarketSnapshots for TLC. *)
EXTENDS MarketSnapshots

CONSTANT p1

\* Every request is served by the first process.
InFirst == [r \in Requests |-> p1]
=============================================================================
