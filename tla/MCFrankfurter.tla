---------------------------- MODULE MCFrankfurter -----------------------------
(***************************************************************************)
(* Frankfurter with a status of each kind and header values around the     *)
(* limits; MaxUint64 is scaled down to 100.                                *)
(***************************************************************************)
EXTENDS Frankfurter

MCStatuses == {200, 302, 404, 408, 429, 500, 503}
MCHeaderValues == {-1, 0, 1, 59, 60, 61, 101}
===============================================================================
