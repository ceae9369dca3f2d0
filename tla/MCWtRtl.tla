------------------------------ MODULE MCWtRtl -------------------------------
(***************************************************************************)
(* WtRtl with one channel that plays what RAM held at power-on: a phase of *)
(* zero and a step of one.                                                 *)
(***************************************************************************)
EXTENDS WtRtl

SilentVals == [reg \in 0..7 |-> {}]
PowerOnTone ==
  {[o \in Offset |-> CASE o = O_STEP_LO -> 1 [] o = O_ENV_STATE -> SUSTAIN
                        [] OTHER -> 0]}
MCRom(wave, level, vol, index) == (3 * wave + level + 2 * vol + 5 * index) % BYTE
=============================================================================
