------------------------------ MODULE MCPsgTop ------------------------------
(***************************************************************************)
(* PsgTop with a counter of four states.  Every data byte also has all the *)
(* bits of an address, the worst that a stray address latch can catch.     *)
(***************************************************************************)
EXTENDS PsgTop

Numbers ==
  [r \in Reg |-> {[hot |-> Reg, num |-> n] : n \in IF r = 5 THEN {0, 1, 3} ELSE {0, 1}}]
=============================================================================
