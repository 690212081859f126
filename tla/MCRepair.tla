------------------------------ MODULE MCRepair ------------------------------
(***************************************************************************)
(* TLC instance of Repair: a root with two logs.                           *)
(***************************************************************************)
EXTENDS Repair
=============================================================================
