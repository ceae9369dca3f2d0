------------------------------ MODULE Wt3Chain ------------------------------
(***************************************************************************)
(* The v1.4 bus front end, rtl/wt3_spfm_bus.v: a 74HC373 latch, a 74HC174  *)
(* that delays the address request by three clocks and the data request by *)
(* two, and a 74HC377 that loads at every clock of the delayed address     *)
(* request.  There is no edge detector: a request is as long as its        *)
(* strobe.  Wt3Bus and Wt3Core put a RAM behind it.                        *)
(***************************************************************************)
EXTENDS SpfmHost

VARIABLES
  addr_q,       \* addr_q[1..3]: address request, three flip-flops of the 174
  data_q,       \* data_q[1..2]: data request, two more
  reg_addr      \* the 377

busvars   == <<addr_q, data_q>>
chainvars == <<hostvars, busvars, reg_addr>>

ClearChain(n) == [i \in 1..n |-> FALSE]

ChainTypeOK ==
  /\ HostTypeOK
  /\ addr_q \in [1..3 -> BOOLEAN] /\ data_q \in [1..2 -> BOOLEAN]
  /\ reg_addr \in Val

ChainInit ==
  /\ HostInit
  /\ addr_q = ClearChain(3) /\ data_q = ClearChain(2)
  /\ reg_addr = 0

\* Mutant of wr_comb: the inverter on A0 is missing.
wr_combNoInverter(k) == strobe /\ a0 = "data"

wr_comb(k) == strobe /\ a0 = k
Shift(q, n, d) == [i \in 1..n |-> IF i = 1 THEN d ELSE q[i - 1]]

addr_en == addr_q[3]                     \* ~addr_wr_pulse_n

\* One posedge CLK with RST_n high.
ChainClock ==
  /\ HostEdge
  /\ addr_q'   = Shift(addr_q, 3, wr_comb("addr"))
  /\ data_q'   = Shift(data_q, 2, wr_comb("data"))
  /\ reg_addr' = IF addr_en THEN d_latch ELSE reg_addr

\* RST_n clears the 174 only: the 377 has no reset.
ChainReset ==
  /\ HostReset
  /\ addr_q' = ClearChain(3) /\ data_q' = ClearChain(2)
  /\ UNCHANGED reg_addr
=============================================================================
