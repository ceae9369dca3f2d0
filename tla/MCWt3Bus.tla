------------------------------ MODULE MCWt3Bus ------------------------------
(***************************************************************************)
(* The v1.4 bus with the strobe of the documentation and the pause of the  *)
(* proofs.                                                                 *)
(***************************************************************************)
EXTENDS Wt3BusProofs
=============================================================================
