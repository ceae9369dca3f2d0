----------------------------- MODULE MCWt3Core -----------------------------
(* Instances of the v1.4 core for TLC. *)
EXTENDS Wt3CoreProofs

\* Bound: bytes of two values, and a wavetable that tells all of them apart
\* where it can.
MCWave(h, v) == (h + v) % BYTE

\* One channel, volume 1, phase step 2 or 3 (the host writes its low byte).
OneChannel ==
  {[x \in Cells |-> CASE x = 2 -> d [] x \in {3, 4} -> 1 [] OTHER -> 0] : d \in Byte}

\* Two channels whose phase steps are 2 and 0.
TwoChannels ==
  {[x \in Cells |-> IF x = 3 THEN 1 ELSE 0]}
=============================================================================
