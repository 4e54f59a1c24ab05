------------------------------- MODULE MCPgStore -------------------------------
(***************************************************************************)
(* Instances of PgStore for TLC.                                           *)
(***************************************************************************)
EXTENDS PgStore

CONSTANTS p1, k1, r1, a1, a2, a3, w1, w2, n1, n2

OnePair == {p1}
NoKey == {}
OneKey == {k1}
OneRate == {r1}
OneDay == {1}
OneTick == {1}

TwoAdmissions == {a1, a2}
ThreeAdmissions == {a1, a2, a3}
OneWorker == {w1}
TwoWorkers == {w1, w2}
OneProc == {n1}
TwoProcs == {n1, n2}

MCUpdates == 1..Cardinality(Admissions)

\* All calls share a replica, or one admission is on another.
Together == [c \in Calls |-> n1]
Apart == [c \in Calls |-> IF c = a3 THEN n2 ELSE n1]
===============================================================================
