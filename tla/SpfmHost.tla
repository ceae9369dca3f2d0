------------------------------ MODULE SpfmHost ------------------------------
(***************************************************************************)
(* The host's side of the SPFM bus.  The host runs on its own clock: it    *)
(* opens a write strobe (/CS and /WR low) with a register number (A0 = 0)  *)
(* or a datum (A0 = 1) on D, holds it for at least Hold edges of the       *)
(* device clock and leaves the bus idle for at least Gap edges.  A strobe  *)
(* opens and closes between two edges, so an edge close to a transition    *)
(* samples either level, as the resolved synchroniser input does.          *)
(***************************************************************************)
EXTENDS Naturals

CONSTANTS Val, Hold, Gap

ASSUME HostAssumption ==
  /\ Val \subseteq Nat /\ 0 \in Val
  /\ Hold \in Nat \ {0} /\ Gap \in Nat \ {0}

VARIABLES
  strobe,       \* ~cs_n & ~wr_n
  a0,           \* "addr" (A0 = 0) or "data" (A0 = 1)
  d_latch,      \* the transparent latch: it follows D while strobe is open
  age,          \* device clock edges since the last strobe opened
  tail          \* device clock edges since the last strobe closed

hostvars == <<strobe, a0, d_latch, age, tail>>

Kind    == {"addr", "data"}
Write   == Kind \X Val
NoWrite == <<"none", 0>>

\* Bound: the edge counts matter up to Cap only, and saturate there.
Cap    == Hold + Gap + 4
Inc(n) == IF n < Cap THEN n + 1 ELSE n

HostTypeOK ==
  /\ strobe \in BOOLEAN
  /\ a0 \in Kind
  /\ d_latch \in Val
  /\ age \in 0..Cap
  /\ tail \in 0..Cap

HostInit ==
  /\ strobe = FALSE /\ a0 = "addr" /\ d_latch = 0
  /\ age = Cap /\ tail = Cap

HostOpen(k, v) ==
  /\ ~strobe
  /\ tail >= Gap
  /\ strobe' = TRUE
  /\ a0' = k
  /\ d_latch' = v
  /\ age' = 0
  /\ UNCHANGED tail

HostClose ==
  /\ strobe
  /\ age >= Hold
  /\ strobe' = FALSE
  /\ tail' = 0
  /\ UNCHANGED <<a0, d_latch, age>>

HostEdge ==
  /\ age' = Inc(age)
  /\ tail' = Inc(tail)
  /\ UNCHANGED <<strobe, a0, d_latch>>

\* The host leaves the bus alone while it holds /RST low.
HostReset ==
  /\ ~strobe
  /\ age' = Cap /\ tail' = Cap
  /\ UNCHANGED <<strobe, a0, d_latch>>
=============================================================================
