------------------------------ MODULE Wt3Core ------------------------------
(***************************************************************************)
(* The v1.4 synthesiser, rtl/wt3_core.v with the microcode of              *)
(* rom/gen_wt3_microcode.py.  A counter walks through 16 steps for each    *)
(* channel: it reads the phase accumulator, the phase step and the volume  *)
(* byte by byte into 377 registers, writes the sum back and loads the DAC. *)
(* The RAM has one port.  /CS itself switches address, data, /WE and /OE   *)
(* between bus and microcode, and disables the 154 that enables the        *)
(* registers; the counter runs on.                                         *)
(*                                                                         *)
(* The RAM writes 55 ns after its /WE falls, at the address and with the   *)
(* datum it then sees.  A microcode word reaches it 55 ns after the edge   *)
(* of STEP_CLK, and the clocks are slower than that: a write that has      *)
(* begun ends before the next edge shows.  The host may open /CS at any    *)
(* time; it moves /CS and /WR together and reads nothing.                  *)
(***************************************************************************)
EXTENDS Wt3Chain

CONSTANTS
  CHANS,            \* channels (4)
  BYTE,             \* values of a RAM byte (256)
  Wave(_, _),       \* wavetable ROM: phase high byte, volume
  Addrs, Datas,     \* register numbers and data that the host writes
  PowerOn,          \* contents of the RAM before the first step
  Polite,           \* TRUE: the host never opens /CS during a write
  Settled,          \* TRUE: it never raises /CS just before an edge of STEP_CLK
  MaxHold,          \* longest strobe, in edges of SPFM_CLK
  MinClk, MaxClk    \* edges of SPFM_CLK between two of STEP_CLK

Byte  == 0..(BYTE - 1)
Cells == {8 * c + s : c \in 0..(CHANS - 1), s \in 0..4}
Pair  == Byte \X Byte

ASSUME CoreAssumption ==
  /\ CHANS \in Nat \ {0} /\ BYTE \in Nat \ {0}
  /\ \A h, v \in Byte : Wave(h, v) \in Byte
  /\ Addrs \subseteq Val \cap Cells /\ Datas \subseteq Val \cap Byte
  /\ PowerOn \subseteq [Cells -> Byte]
  /\ {Polite, Settled} \subseteq BOOLEAN
  /\ MaxHold \in Nat /\ MaxHold >= Hold
  /\ MinClk \in Nat /\ MaxClk \in Nat /\ MinClk <= MaxClk /\ MaxClk > 0

VARIABLES
  step,             \* the two 161: channel and substep
  reg_a, reg_b,     \* accumulator and phase step, <<low byte, high byte>>
  reg_c,            \* volume
  mem,              \* the 62256
  dac_out,          \* the 273
  writing,          \* /WE has fallen, the RAM has not stored yet
  clk,              \* edges of SPFM_CLK since the last edge of STEP_CLK
  host_reg,         \* history: the register number the host wrote last
  params,           \* history: what the host wrote
  spoilt,           \* history: registers hit by an address strobe and not written since
  start,            \* history: the accumulator when this channel's turn began
  clean             \* history: no /CS since then

corevars == <<step, reg_a, reg_b, reg_c, dac_out>>
history  == <<host_reg, params, spoilt, start, clean>>
vars     == <<chainvars, corevars, mem, writing, clk, history>>

sub  == step % 16
chan == step \div 16

Number(p) == p[1] + BYTE * p[2]
Acc(c)      == Number(<<mem[8 * c], mem[8 * c + 1]>>)
StepWord(c) == Number(<<mem[8 * c + 2], mem[8 * c + 3]>>)

TypeOK ==
  /\ ChainTypeOK
  /\ step \in 0..(16 * CHANS - 1)
  /\ reg_a \in Pair /\ reg_b \in Pair /\ reg_c \in Byte
  /\ mem \in [Cells -> Byte] /\ params \in [Cells -> Byte]
  /\ dac_out \in Byte
  /\ {writing, clean} \subseteq BOOLEAN
  /\ clk \in 0..MaxClk
  /\ host_reg \in Val /\ spoilt \subseteq Val
  /\ start \in 0..(BYTE * BYTE - 1)

Init ==
  /\ ChainInit
  /\ step = 0
  /\ reg_a = <<0, 0>> /\ reg_b = <<0, 0>> /\ reg_c = 0 /\ dac_out = 0
  /\ mem \in PowerOn /\ params = mem
  /\ writing = FALSE /\ clk = 0
  /\ host_reg = 0 /\ spoilt = {} /\ start = Acc(0) /\ clean = TRUE
-----------------------------------------------------------------------------
\* The microcode: RAM cell of the channel, and whether it writes.
\* Mutant of Word: the high byte is written in the step after the low byte.
WordAdjacent(s) ==
  [cell |-> IF s < 10 THEN s \div 2 ELSE IF s = 11 THEN 1 ELSE 0,
   we   |-> s \in {10, 11}]

Word(s) ==
  [cell |-> IF s < 10 THEN s \div 2 ELSE IF s = 12 THEN 1 ELSE 0,
   we   |-> s \in {10, 12}]

\* The multiplexers.
\* Mutant of ram_we: either source pulls /WE.
ram_weEither == data_q[2] \/ Word(sub).we

ram_we   == IF strobe THEN data_q[2] ELSE Word(sub).we     \* ~ram_we_n
ram_addr == IF strobe THEN reg_addr ELSE 8 * chan + Word(sub).cell

\* Mutants of adder: a carry out of the high byte, no carry into it.
adderNoWrap  == Number(reg_a) + Number(reg_b)
adderNoCarry == Number([i \in 1..2 |-> (reg_a[i] + reg_b[i]) % BYTE])

adder     == (Number(reg_a) + Number(reg_b)) % (BYTE * BYTE)
writeback == IF Word(sub).cell % 2 = 0 THEN adder % BYTE ELSE adder \div BYTE
ram_di    == IF strobe THEN d_latch % BYTE ELSE writeback
wave_do   == Wave(reg_a[2], reg_c)

\* /WE falls; an edge during a write is lost.
WriteEnable == writing' = (writing \/ (ram_we' /\ ~ram_we))

\* What a register enabled by the 154 takes from the RAM's outputs: anything
\* until 55 ns (less than a period of SPFM_CLK) after /CS has risen.
Read == IF Settled \/ tail >= 2 THEN {mem[ram_addr]} ELSE Byte

Latch(b) ==
  /\ reg_a' = IF sub = 1 THEN <<b, reg_a[2]>> ELSE IF sub = 3 THEN <<reg_a[1], b>> ELSE reg_a
  /\ reg_b' = IF sub = 5 THEN <<b, reg_b[2]>> ELSE IF sub = 7 THEN <<reg_b[1], b>> ELSE reg_b
  /\ reg_c' = IF sub = 9 THEN b ELSE reg_c

\* posedge STEP_CLK
Step ==
  /\ clk >= MinClk /\ ~writing
  /\ step' = (step + 1) % (16 * CHANS)
  /\ IF ~strobe /\ sub \in {1, 3, 5, 7, 9}
       THEN \E b \in Read : Latch(b)
       ELSE UNCHANGED <<reg_a, reg_b, reg_c>>
  /\ dac_out' = IF ~strobe /\ sub = 12 THEN wave_do ELSE dac_out
  /\ clk' = 0
  /\ start' = IF sub = 15 THEN Acc(chan') ELSE start
  /\ clean' = IF sub = 15 THEN ~strobe ELSE clean
  /\ UNCHANGED <<chainvars, mem, host_reg, params, spoilt>>
  /\ WriteEnable

\* posedge SPFM_CLK
Clock ==
  /\ clk < MaxClk /\ ~writing
  /\ strobe => age < MaxHold
  /\ ChainClock
  /\ clk' = clk + 1
  /\ UNCHANGED <<corevars, mem, history>>
  /\ WriteEnable

\* The RAM stores.
Commit ==
  /\ writing
  /\ mem' = [mem EXCEPT ![ram_addr] = ram_di]
  /\ writing' = FALSE
  /\ UNCHANGED <<chainvars, corevars, clk, history>>

\* The host names a register before it writes.  If /CS falls during a microcode
\* write, the RAM stores what the host puts on D at the number that the 377 holds:
\* a datum a little early, or the number of the next register in the one before.
Open(k, v) ==
  /\ Polite => ~writing
  /\ k = "data" => host_reg \in Addrs
  /\ HostOpen(k, v)
  /\ clean' = FALSE
  /\ host_reg' = IF k = "addr" THEN v ELSE host_reg
  /\ params' = IF k = "data" THEN [params EXCEPT ![host_reg] = v] ELSE params
  /\ spoilt' = IF k = "data" THEN spoilt \ {host_reg}
               ELSE IF writing THEN spoilt \cup {reg_addr} ELSE spoilt
  /\ UNCHANGED <<busvars, reg_addr, corevars, mem, clk, start>>
  /\ WriteEnable

\* Enabling the 154 again in step 13 clocks the DAC.
Close ==
  /\ ~writing
  /\ HostClose
  /\ dac_out' = IF sub = 13 THEN wave_do ELSE dac_out
  /\ UNCHANGED <<busvars, reg_addr, step, reg_a, reg_b, reg_c, mem, clk, history>>
  /\ WriteEnable

\* RST_n holds the counter, disables the 154 and clears the DAC.  A register
\* number that the 377 has not taken yet is lost.
Reset ==
  /\ ~writing
  /\ ChainReset
  /\ dac_out' = IF sub = 13 THEN wave_do ELSE 0
  /\ host_reg' = reg_addr
  /\ UNCHANGED <<step, reg_a, reg_b, reg_c, mem, writing, clk, params, spoilt, start, clean>>

Next ==
  \/ \E v \in Addrs : Open("addr", v)
  \/ \E v \in Datas : Open("data", v)
  \/ Close
  \/ Step
  \/ Clock
  \/ Commit
  \/ Reset

Spec == Init /\ [][Next]_vars
-----------------------------------------------------------------------------
\* A turn during which the bus stays closed adds the phase step to the
\* accumulator once, whatever turns the bus disturbed before it and wherever
\* a reset interrupts it; while the DAC is enabled it shows the sample of the
\* phase and the volume the turn began with (wt3_core.v:109-120, 353-458, 485).
CleanPass ==
  clean /\ sub \in 13..15 =>
    /\ Acc(chan) = (start + StepWord(chan)) % (BYTE * BYTE)
    /\ sub = 13 => dac_out = Wave(start \div BYTE, mem[8 * chan + 4])

\* Whenever the host strikes, phase steps and volumes hold what it wrote, but for
\* one case: an address strobe that opens during a microcode write puts its number
\* in the register that was named before it, where it stays until that register is
\* written again.  No other write goes to the other side's address, and none is
\* lost (wt3_core.v:158-250).
ParamsKept ==
  ~strobe => \A c \in 0..(CHANS - 1), s \in 2..4 :
               8 * c + s \notin spoilt => mem[8 * c + s] = params[8 * c + s]

\* Volume writes leave the frequencies alone: at the end of its turn a
\* channel has advanced by its own step, or missed the turn
\* (docs/wt3-architecture.md:327-329 and 355).
OwnStep ==
  sub \in 13..15 =>
    Acc(chan) \in {start, (start + StepWord(chan)) % (BYTE * BYTE)}
=============================================================================
