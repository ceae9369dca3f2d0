------------------------------- MODULE Wt3Bus -------------------------------
(***************************************************************************)
(* The v1.4 bus front end (Wt3Chain) with the parameter RAM of             *)
(* rtl/wt3_spfm_ram.v behind it: a 62256 that writes where its /WE falls.  *)
(***************************************************************************)
EXTENDS Wt3Chain

VARIABLES
  regw,         \* history: the last RAM write (bit, address, value)
  inflight      \* history: the host's write that has not taken effect yet

vars == <<chainvars, regw, inflight>>

TypeOK ==
  /\ ChainTypeOK
  /\ regw \in {0, 1} \X Val \X Val
  /\ inflight \in Write \cup {NoWrite}

Init ==
  /\ ChainInit
  /\ regw = <<0, 0, 0>> /\ inflight = NoWrite

\* Mutant of we_n_fall: the RAM writes at every clock of the request.
we_n_low == data_q[1]

we_n_fall == data_q[1] /\ ~data_q[2]     \* data_wr_pulse_n falls at this edge

Open(k, v) ==
  /\ HostOpen(k, v)
  /\ inflight' = <<k, v>>
  /\ UNCHANGED <<busvars, reg_addr, regw>>

Close ==
  /\ HostClose
  /\ UNCHANGED <<busvars, reg_addr, regw, inflight>>

\* Mutant of Clock: a register number that increments after a data write.
ClockIncrement ==
  /\ HostEdge
  /\ addr_q'   = Shift(addr_q, 3, wr_comb("addr"))
  /\ data_q'   = Shift(data_q, 2, wr_comb("data"))
  /\ reg_addr' = IF addr_en THEN d_latch
                 ELSE IF we_n_fall THEN reg_addr + 1 ELSE reg_addr
  /\ regw'     = IF we_n_fall THEN <<1 - regw[1], reg_addr, d_latch>> ELSE regw
  /\ inflight' = IF addr_en \/ we_n_fall THEN NoWrite ELSE inflight

\* The RAM samples its address after the 377 has settled (55 ns against 15 ns).
Clock ==
  /\ ChainClock
  /\ regw'     = IF we_n_fall THEN <<1 - regw[1], reg_addr', d_latch>> ELSE regw
  /\ inflight' = IF addr_en \/ we_n_fall THEN NoWrite ELSE inflight

Reset ==
  /\ ChainReset
  /\ inflight' = NoWrite
  /\ UNCHANGED regw

Next ==
  \/ \E k \in Kind, v \in Val : Open(k, v)
  \/ Close
  \/ Clock
  \/ Reset

Spec == Init /\ [][Next]_vars

\* The oscillator never stops.
FairSpec == Spec /\ WF_vars(Clock)
-----------------------------------------------------------------------------
Abs == INSTANCE SpfmSpec

\* Every write the host strobes takes effect exactly once, with its own A0
\* and its own byte, and before the next strobe can open: the register number
\* is never replaced by the datum that follows it
\* (wt3_spfm_bus.v:62-134, wt3_spfm_ram.v:49-71).
ExactlyOnce == Abs!AbsSpec

\* The chain answers: a write on its way is taken (or reset away).
Delivered == inflight # NoWrite ~> inflight = NoWrite
=============================================================================
