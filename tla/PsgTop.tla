------------------------------- MODULE PsgTop -------------------------------
(***************************************************************************)
(* The wave channel of the PSG3 v0.5 board, rtl/psg3_top.v, behind its     *)
(* eight-register bus, and the FT232H that drives the bus a port at a      *)
(* time.  The bus has no clock of its own: the level CS, A0 and WR together*)
(* make the edge on which an address or a register is latched.  On the     *)
(* other side a 12-bit counter steps a CD4029 at the rising edge of the    *)
(* crystal; a 74HC112 turns the CD4029 round, for the triangle, at the     *)
(* falling edge.  The fields that reach neither counter (volume, duty,     *)
(* mode) and the DACs are left out.                                        *)
(***************************************************************************)
EXTENDS Naturals

CONSTANTS
  LOW, HIGH,    \* values of the period's byte in reg3 (256) and bits in reg4 (16)
  STEPS,        \* states of the CD4029 (16)
  Datum         \* environment: Datum[r] are the bytes that the host writes to r

Reg == {3, 4, 5}

\* What a byte on the bus means as an address, one bit per register, and as a datum.
Byte       == [hot: SUBSET Reg, num: Nat]
Address(r) == [hot |-> {r}, num |-> 0]

ASSUME PsgAssumption ==
  /\ LOW \in Nat \ {0} /\ HIGH \in Nat \ {0} /\ LOW * HIGH >= 2
  /\ STEPS \in Nat /\ STEPS >= 3
  /\ Datum \in [Reg -> SUBSET Byte]

VARIABLES
  k, reg, datum,        \* host: the command of _bus_write, and its arguments
  bus_data,             \* port C
  A0, WR_n, CS_n,       \* pins of port D
  addr_out, regs,       \* u_addr and u_reg3..5
  clk,
  cnt,                  \* u_up0..2
  uni_q, dir_q,         \* the CD4029 and the 112
  uni_wave_clean,       \* the 273 before the DAC
  folding               \* history: triangle selected since the last falling edge

hostvars == <<k, reg, datum, bus_data>>
pinvars  == <<A0, WR_n, CS_n>>
regvars  == <<addr_out, regs>>
wavevars == <<clk, cnt, uni_q, dir_q, uni_wave_clean, folding>>
vars     == <<hostvars, pinvars, regvars, wavevars>>

TOP == LOW * HIGH - 1

TypeOK ==
  /\ k \in 0..9 /\ reg \in Reg /\ datum \in Byte /\ bus_data \in Byte
  /\ A0 \in BOOLEAN /\ WR_n \in BOOLEAN /\ CS_n \in BOOLEAN
  /\ addr_out \in Byte /\ regs \in [Reg -> Byte]
  /\ clk \in BOOLEAN /\ cnt \in 0..TOP
  /\ uni_q \in 0..(STEPS - 1) /\ dir_q \in BOOLEAN
  /\ uni_wave_clean \in 0..(STEPS - 1) /\ folding \in BOOLEAN

\* After power-up and the reset of the driver: the 374s hold anything.
Init ==
  /\ k = 0 /\ reg = 3 /\ datum = Address(3) /\ bus_data = Address(3)
  /\ A0 = FALSE /\ WR_n = TRUE /\ CS_n = TRUE
  /\ addr_out \in Datum[5]
  /\ regs \in [Reg -> UNION {Datum[r] : r \in Reg}]
  /\ \A r \in Reg : regs[r] \in Datum[r]
  /\ clk = FALSE /\ cnt = 0
  /\ uni_q \in 0..(STEPS - 1) /\ dir_q = FALSE
  /\ uni_wave_clean = 0 /\ folding = FALSE
-----------------------------------------------------------------------------
\* Mutant of A0_at: A0 goes up with the strobe, in one write of the port.
A0_atLate(n) == n \in 7..9

\* Mutant of WR_n_at: one strobe for address and datum.
WR_n_atOnce(n) == n \in {0, 7}

\* The commands of _bus_write: 0 idle, 1 CS and WR low, 2 address on port C,
\* 3 and 4 WR, 5 datum on port C, 6 A0, 7 and 8 WR, 9 CS high.
A0_at(n)   == n \in 6..9
WR_n_at(n) == n \in {0, 3, 7}
CS_n_at(n) == n \in {0, 9}

Settled == A0 = A0_at(k) /\ WR_n = WR_n_at(k) /\ CS_n = CS_n_at(k)

\* The driver sends the next command when the pins of the last one are there.
Command ==
  /\ Settled
  /\ k' = (k + 1) % 10
  /\ IF k = 0 THEN reg' \in Reg /\ datum' \in Datum[reg'] ELSE UNCHANGED <<reg, datum>>
  /\ bus_data' = CASE k = 1 -> Address(reg) [] k = 4 -> datum [] OTHER -> bus_data
  /\ UNCHANGED <<pinvars, regvars, wavevars>>

addr_cp     == ~CS_n /\ ~A0 /\ WR_n
data_strobe == ~CS_n /\ A0 /\ WR_n

reg_cp(r)   == r \in addr_out.hot /\ data_strobe

uni_wave == regs[5].num % 4
TRIANGLE == 1
RSAW     == 3

\* The 374s: whatever edge the gates make out of the pins.
Edges ==
  /\ addr_out' = IF ~addr_cp /\ addr_cp' THEN bus_data ELSE addr_out
  /\ regs' = [r \in Reg |-> IF ~reg_cp(r) /\ reg_cp(r)' THEN bus_data ELSE regs[r]]
  /\ folding' = (folding /\ uni_wave' = TRIANGLE)

\* The pins that a command changes move one after the other, in any order.
Pin ==
  /\ \/ A0 # A0_at(k) /\ A0' = A0_at(k) /\ UNCHANGED <<WR_n, CS_n>>
     \/ WR_n # WR_n_at(k) /\ WR_n' = WR_n_at(k) /\ UNCHANGED <<A0, CS_n>>
     \/ CS_n # CS_n_at(k) /\ CS_n' = CS_n_at(k) /\ UNCHANGED <<A0, WR_n>>
  /\ Edges
  /\ UNCHANGED <<hostvars, clk, cnt, uni_q, dir_q, uni_wave_clean>>

\* RST_n, pulsed by the driver between two writes, reaches no 374 and no CD4029.
Reset ==
  /\ k = 0 /\ Settled
  /\ cnt' = 0 /\ dir_q' = FALSE /\ uni_wave_clean' = 0
  /\ UNCHANGED <<hostvars, pinvars, regvars, clk, uni_q, folding>>
-----------------------------------------------------------------------------
uni_period  == (regs[3].num % LOW) + LOW * (regs[4].num % HIGH)
uni_freq_tc == cnt = TOP

uni_ud ==
  CASE uni_wave = TRIANGLE -> ~dir_q [] uni_wave = RSAW -> FALSE [] OTHER -> TRUE

\* Mutant of at_extreme: the bottom does not turn.
at_extremeTopOnly == uni_freq_tc /\ uni_ud /\ uni_q = STEPS - 1

\* CO of the CD4029, which is up only while it may count.
at_extreme == uni_freq_tc /\ uni_q = IF uni_ud THEN STEPS - 1 ELSE 0

\* Mutant of Next_q: an up counter stops at its end.
Next_qStops ==
  IF uni_ud THEN (IF uni_q = STEPS - 1 THEN uni_q ELSE uni_q + 1)
  ELSE (uni_q + STEPS - 1) % STEPS

\* Mutant of Next_q: counting down does not wrap.
Next_qNoWrap == IF uni_ud THEN (uni_q + 1) % STEPS ELSE (uni_q + STEPS) - 1

\* The CD4029 counts up or down and wraps.
Next_q == IF uni_ud THEN (uni_q + 1) % STEPS ELSE (uni_q + STEPS - 1) % STEPS

\* The counters reload where they end.
Rise ==
  /\ ~clk /\ clk' = TRUE
  /\ cnt' = IF uni_freq_tc THEN uni_period ELSE cnt + 1
  /\ uni_q' = IF uni_freq_tc THEN Next_q ELSE uni_q
  /\ UNCHANGED <<hostvars, pinvars, regvars, dir_q, uni_wave_clean, folding>>

\* The 112 toggles, in every wave form, and the 273 takes the settled count.
Fall ==
  /\ clk /\ clk' = FALSE
  /\ dir_q' = IF at_extreme THEN ~dir_q ELSE dir_q
  /\ uni_wave_clean' = uni_q
  /\ folding' = (uni_wave = TRIANGLE)
  /\ UNCHANGED <<hostvars, pinvars, regvars, cnt, uni_q>>

Next == Command \/ Pin \/ Reset \/ Rise \/ Fall

\* The crystal never stops.
Spec == Init /\ [][Next]_vars /\ WF_vars(Rise) /\ WF_vars(Fall)
-----------------------------------------------------------------------------
\* A write changes the register it names, once, to its datum, and no other,
\* although every edge is made of three pins that do not move together
\* (psg3_top.v:82-104, psg3_rev_e2_test.py:108).
OnlyTarget ==
  [][regs' # regs => k = 7 /\ regs' = [regs EXCEPT ![reg] = datum]]_vars

\* When the strobe is over the register holds the datum, whatever the address
\* register has caught while the chip select came.
Landed == k \in 8..9 => regs[reg] = datum

\* The triangle turns at its ends and never jumps from one to the other, although
\* the 112 turns half a clock before the count, has toggled unseen in the other
\* wave forms, and the wave form may be written at any moment; but for the count
\* after a triangle that was selected since the 112 last looked
\* (psg3_top.v:225-240).
Turns ==
  [][folding /\ uni_q' # uni_q => uni_q' = uni_q + 1 \/ uni_q = uni_q' + 1]_vars

\* However the registers and the 112 were left, a channel that is left alone runs
\* through every level again and again: no wave form, period or direction stops it.
Sounds ==
  \A n \in 0..(STEPS - 1) : []<><<Command \/ Reset>>_vars \/ []<>(uni_q = n)
=============================================================================
