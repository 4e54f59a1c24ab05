--------------------------- MODULE MCQuoteService ---------------------------
(***************************************************************************)
(* Instances of QuoteService for TLC.                                      *)
(***************************************************************************)
EXTENDS QuoteService, TLC

CONSTANTS p1, p2, k1, r1, r2, procA, procB, w1, w2, q1, q2

MCUpdates1 == {1}
MCUpdates2 == 1..2
MCDates1 == {1}
MCRetryDelays == {1}

\* One replica with one worker, or two replicas with one each.
HostSolo == [w \in {w1} |-> procA]
HostTwo == (w1 :> procA) @@ (w2 :> procB)

\* Requests are alike, and so are pairs.
SymmetryRequests == Permutations({q1, q2}) \cup Permutations({p1, p2})
=============================================================================
