---------------------------- MODULE MCQuoteStore ----------------------------
(***************************************************************************)
(* Instance of QuoteStore for TLC: every sequence of store calls by        *)
(* callers that may hold any attempt number, on three rows.                *)
(***************************************************************************)
EXTENDS QuoteStore, TLC

CONSTANTS p1, p2, k1, r1

MCPairs == {p1, p2}
MCKeys == {k1}
MCRates == {r1}
MCDates == {1, 2}
MCUpdates == 1..3
MCRetryDelays == {1}

Symmetry == Permutations(MCPairs)
=============================================================================
