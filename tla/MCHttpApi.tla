------------------------------ MODULE MCHttpApi ------------------------------
(***************************************************************************)
(* Instance of HttpApi for TLC: a client among others on two updates.      *)
(***************************************************************************)
EXTENDS HttpApi, TLC

CONSTANTS p1, p2, k1, r1

MCPairs == {p1, p2}
MCKeys == {k1}
MCRates == {r1}
MCDates == {1, 2}
MCUpdates == 1..2
MCRetryDelays == {0}

Symmetry == Permutations(MCPairs)
===============================================================================
