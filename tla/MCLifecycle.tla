---------------------------- MODULE MCLifecycle ----------------------------
(***************************************************************************)
(* Instance of Lifecycle for TLC: a worker, the recovery loop, two requests. *)
(***************************************************************************)
EXTENDS Lifecycle

CONSTANTS worker, recovery, q1, q2
=============================================================================
