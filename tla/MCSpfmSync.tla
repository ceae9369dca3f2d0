----------------------------- MODULE MCSpfmSync ------------------------------
(***************************************************************************)
(* SpfmSync together with the assumption of its proofs: the documented     *)
(* minimum of the bus is a strobe of three clocks and a pause of one.      *)
(***************************************************************************)
EXTENDS SpfmSyncProofs
=============================================================================
