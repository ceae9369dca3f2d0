------------------------------- MODULE WtRtl --------------------------------
(***************************************************************************)
(* rtl/wt_rtl.v, the rewrite of rtl/wt_ram.v for 74HC parts.  Its control  *)
(* is that of WtMicro; what differs is the adder, whose second input comes *)
(* from two registers, step_lo_r and step_hi_r, latched at microsteps 1    *)
(* and 4.                                                                  *)
(***************************************************************************)
EXTENDS WtMicro

VARIABLES step_lo_r, step_hi_r

rtlvars == <<vars, step_lo_r, step_hi_r>>

RtlInit == Init /\ step_lo_r = 0 /\ step_hi_r = 0

Latches(s) == ~sample_start /\ ustep < TOTAL_STEPS /\ ums = s

RtlMicroStep == Micro(IF ums = 2 THEN step_lo_r ELSE step_hi_r)

RtlClock ==
  /\ \E reg \in Reg : \E v \in Input(reg) : DataWrite(reg, v)
  /\ Tick
  /\ SampleStart \/ RtlMicroStep \/ IdleStep \/ MailStep
  /\ step_lo_r' = IF Latches(1) THEN ram_io ELSE step_lo_r
  /\ step_hi_r' = IF Latches(4) THEN ram_io ELSE step_hi_r
  /\ History

RtlReset == Reset /\ step_lo_r' = 0 /\ step_hi_r' = 0

\* The oscillator never stops.
RtlSpec == RtlInit /\ [][RtlClock \/ RtlReset]_rtlvars /\ WF_rtlvars(RtlClock)
-----------------------------------------------------------------------------
\* "与 wt_ram.v 一致" (the same as wt_ram.v, wt_rtl.v:139): every channel's
\* phase advances by its step in one pass.
SameAsWtRam == Atomic
=============================================================================
