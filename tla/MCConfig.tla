------------------------------- MODULE MCConfig -------------------------------
(***************************************************************************)
(* Instance of Config for TLC: the five settings the two races depend on,  *)
(* with scaled-down bounds that keep the order of the code's.              *)
(***************************************************************************)
EXTENDS Config

MCSettings ==
  {"ProviderTimeout", "LeaseDuration", "RequestTimeout", "ReadTimeout", "WriteTimeout"}
MCLower == [k \in MCSettings |-> IF k = "LeaseDuration" THEN 2 ELSE 1]
MCUpper == [k \in MCSettings |-> IF k = "LeaseDuration" THEN 5 ELSE 3]
MCDefault ==
  [ProviderTimeout |-> 1, LeaseDuration |-> 4, RequestTimeout |-> 1, ReadTimeout |-> 2,
   WriteTimeout |-> 2]
MCValues == 0..6
===============================================================================
