------------------------------ MODULE SpfmSpec ------------------------------
(***************************************************************************)
(* What an SPFM bus front end promises the host: a write strobe is a       *)
(* message, and every message takes effect exactly once, in order, before  *)
(* the host may send the next one.  An address write selects a register, a *)
(* data write writes the selected register.                                *)
(***************************************************************************)
EXTENDS Naturals

CONSTANT Val                \* the byte values the host puts on D[7:0]

VARIABLES
  inflight,     \* the write on its way, or NoWrite
  reg_addr,     \* the selected register
  regw          \* the last register write: alternating bit, register, value

absvars == <<inflight, reg_addr, regw>>

Kind    == {"addr", "data"}
Write   == Kind \X Val
NoWrite == <<"none", 0>>

AbsInit ==
  /\ inflight = NoWrite
  /\ reg_addr = 0
  /\ regw     = <<0, 0, 0>>

Send ==
  /\ inflight = NoWrite
  /\ inflight' \in Write
  /\ UNCHANGED <<reg_addr, regw>>

TakeAddr ==
  /\ inflight \in {"addr"} \X Val
  /\ reg_addr' = inflight[2]
  /\ inflight' = NoWrite
  /\ UNCHANGED regw

TakeData ==
  /\ inflight \in {"data"} \X Val
  /\ regw'     = <<1 - regw[1], reg_addr, inflight[2]>>
  /\ inflight' = NoWrite
  /\ UNCHANGED reg_addr

\* A reset forgets the write on its way; it may clear the selection.
Clear ==
  /\ inflight' = NoWrite
  /\ reg_addr' \in {0, reg_addr}
  /\ UNCHANGED regw

AbsNext == Send \/ TakeAddr \/ TakeData \/ Clear

AbsSpec == AbsInit /\ [][AbsNext]_absvars
=============================================================================
