------------------------------ MODULE SpfmSync ------------------------------
(***************************************************************************)
(* The bus front end of rtl/wt_ram.v: a transparent data latch, a          *)
(* two-stage synchroniser and a rising-edge detector for each of the two   *)
(* requests, and the registers that the one-clock pulses write.            *)
(***************************************************************************)
EXTENDS SpfmHost

VARIABLES
  req_meta,     \* first synchroniser stage, per kind of request
  req_sync,     \* second stage
  req_prev,     \* req_sync one clock earlier
  req_pulse,    \* one clock at the rising edge of req_sync
  reg_addr,     \* the selected register
  regw,         \* history: the last register write (bit, register, value)
  inflight      \* history: the host's write that has not taken effect yet

chain == <<req_meta, req_sync, req_prev, req_pulse>>
vars  == <<hostvars, chain, reg_addr, regw, inflight>>

Off == [k \in Kind |-> FALSE]

TypeOK ==
  /\ HostTypeOK
  /\ req_meta \in [Kind -> BOOLEAN] /\ req_sync \in [Kind -> BOOLEAN]
  /\ req_prev \in [Kind -> BOOLEAN] /\ req_pulse \in [Kind -> BOOLEAN]
  /\ reg_addr \in Val
  /\ regw \in {0, 1} \X Val \X Val
  /\ inflight \in Write \cup {NoWrite}

Init ==
  /\ HostInit
  /\ req_meta = Off /\ req_sync = Off /\ req_prev = Off /\ req_pulse = Off
  /\ reg_addr = 0 /\ regw = <<0, 0, 0>> /\ inflight = NoWrite

req_async(k) == strobe /\ a0 = k

Open(k, v) ==
  /\ HostOpen(k, v)
  /\ inflight' = <<k, v>>
  /\ UNCHANGED <<chain, reg_addr, regw>>

Close ==
  /\ HostClose
  /\ UNCHANGED <<chain, reg_addr, regw, inflight>>

\* Mutants of Clock: no edge detector; the history stage fed one stage too
\* early; a register number that increments after a data write.
Sampled ==
  /\ HostEdge
  /\ req_meta' = [k \in Kind |-> req_async(k)]
  /\ req_sync' = req_meta
Consumed(next_addr) ==
  /\ reg_addr' = IF req_pulse["addr"] THEN d_latch ELSE next_addr
  /\ regw'     = IF req_pulse["data"] THEN <<1 - regw[1], reg_addr, d_latch>>
                                      ELSE regw
  /\ inflight' = IF req_pulse["addr"] \/ req_pulse["data"] THEN NoWrite
                                                           ELSE inflight
ClockNoEdge ==
  /\ Sampled /\ Consumed(reg_addr)
  /\ req_prev' = req_sync /\ req_pulse' = req_sync
ClockEarlyPrev ==
  /\ Sampled /\ Consumed(reg_addr)
  /\ req_prev' = req_meta
  /\ req_pulse' = [k \in Kind |-> req_sync[k] /\ ~req_prev[k]]
ClockIncrement ==
  /\ Sampled /\ Consumed(IF req_pulse["data"] THEN reg_addr + 1 ELSE reg_addr)
  /\ req_prev' = req_sync
  /\ req_pulse' = [k \in Kind |-> req_sync[k] /\ ~req_prev[k]]

\* One posedge clk with rst_n high.
Clock ==
  /\ HostEdge
  /\ req_meta'  = [k \in Kind |-> req_async(k)]
  /\ req_sync'  = req_meta
  /\ req_prev'  = req_sync
  /\ req_pulse' = [k \in Kind |-> req_sync[k] /\ ~req_prev[k]]
  /\ reg_addr'  = IF req_pulse["addr"] THEN d_latch ELSE reg_addr
  /\ regw'      = IF req_pulse["data"] THEN <<1 - regw[1], reg_addr, d_latch>>
                                       ELSE regw
  /\ inflight'  = IF req_pulse["addr"] \/ req_pulse["data"] THEN NoWrite
                                                            ELSE inflight

\* Mutant of Reset: the synchronisers are left out of the reset list.
ResetKeepsChain ==
  /\ HostReset
  /\ reg_addr' = 0
  /\ inflight' = NoWrite
  /\ UNCHANGED <<chain, regw>>

\* negedge rst_n: every flip-flop clears, the latch keeps its byte.
Reset ==
  /\ HostReset
  /\ req_meta' = Off /\ req_sync' = Off /\ req_prev' = Off /\ req_pulse' = Off
  /\ reg_addr' = 0
  /\ inflight' = NoWrite
  /\ UNCHANGED regw

Next ==
  \/ \E k \in Kind, v \in Val : Open(k, v)
  \/ Close
  \/ Clock
  \/ Reset

Spec == Init /\ [][Next]_vars

\* The oscillator never stops.
FairSpec == Spec /\ WF_vars(Clock)
-----------------------------------------------------------------------------
Abs == INSTANCE SpfmSpec

\* Every write the host strobes takes effect exactly once, with its own A0
\* and its own byte, and before the next strobe can open: no pulse is
\* doubled, lost, or served from the byte of a later write (wt_ram.v:115-145,
\* 205-210).
ExactlyOnce == Abs!AbsSpec

\* The synchroniser answers: a write on its way is taken (or reset away).
Delivered == inflight # NoWrite ~> inflight = NoWrite
=============================================================================
