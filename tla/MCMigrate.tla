------------------------------ MODULE MCMigrate ------------------------------
(***************************************************************************)
(* Instance of Migrate for TLC: a rolling upgrade, an old replica beside   *)
(* two new ones.                                                           *)
(***************************************************************************)
EXTENDS Migrate

CONSTANTS old, new1, new2

MCReplicas == {old, new1, new2}
MCLast == [r \in MCReplicas |-> IF r = old THEN 1 ELSE 3]
===============================================================================
