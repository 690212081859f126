------------------------------ MODULE MCVerify ------------------------------
(***************************************************************************)
(* TLC instance of Verify.                                                 *)
(***************************************************************************)
EXTENDS Verify
=============================================================================
