----------------------------- MODULE MCWtSynth ------------------------------
(***************************************************************************)
(* Instances of WtSynth.  Register numbers: 1 wave_idx, 2 vol, 3 env_rate, *)
(* 4 step_lo, 5 step_hi; a parameter that is never written keeps its 0.    *)
(***************************************************************************)
EXTENDS WtSynthProofs

\* Commands on every channel, and value 1 to the parameter registers of regs.
Commands(regs) ==
  [reg \in 0..7 |-> CASE reg = R_CTRL   -> Chan
                      [] reg \in R_PARAM -> IF reg \in regs THEN {1} ELSE {}
                      [] OTHER           -> {0}]

EnvelopeVals == Commands({2, 3})

\* Two power-on contents of a channel: cleared SRAM, and an arbitrary record
\* with an undefined envelope state and a counter beyond its rate.
Cleared == [o \in Offset |-> 0]
Garbage == [Cleared EXCEPT ![O_ENV_STATE] = BYTE - 1, ![O_LEVEL] = BYTE - 1,
                           ![O_ENV_CNT] = BYTE - 1, ![O_VOL] = 1]
AnyContents   == {Cleared, Garbage}
=============================================================================
