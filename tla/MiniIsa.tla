------------------------------ MODULE MiniIsa -------------------------------
(***************************************************************************)
(* The instruction set of the MiniGlow CPU, as step() of                   *)
(* miniglow/sim/miniglow_sim.c executes it: one instruction of 16 bits     *)
(* per clock, no pipeline, no interrupts.  An instruction moves a source   *)
(* to a destination, or selects a segment, or jumps to RA.  Segment 3      *)
(* holds the registers towards the FT232H and segment 4 those of the       *)
(* coprocessor; the rest of the address space is SRAM.  The simulator      *)
(* knows a running CPU only; what a clock does to a CPU that its host has  *)
(* stopped or holds in reset is stated here, exactly, as Halt.             *)
(***************************************************************************)
EXTENDS MiniInstr

CONSTANT Image        \* environment: the <<address, byte>> pairs the host downloads

VARIABLES
  MODE, RST_n,  \* the pins of the host: the CPU runs while both are high
  tick,         \* parity of the clocks: a clock is never a step that did not happen
  prog_rom,
  pc, A, B, RA_L, RA_H, SEG,
  IO_OUT,       \* towards the FT232H
  AUDIO_OUT,    \* towards the DAC
  sram,         \* a partial function: what was never written is 0
  cp            \* the coprocessor of the tests: data and out_l

regvars == <<A, B, RA_L, RA_H, AUDIO_OUT>>
memvars == <<IO_OUT, sram, cp>>
pinvars == <<MODE, RST_n>>
isavars == <<pinvars, tick, prog_rom, pc, SEG, regvars, memvars>>

IsaInit ==
  /\ MODE \in BOOLEAN /\ RST_n = FALSE /\ tick = FALSE
  /\ IsProgram(prog_rom)
  /\ pc = 0 /\ SEG = 0
  /\ A = 0 /\ B = 0 /\ RA_L = 0 /\ RA_H = 0
  /\ IO_OUT = 0 /\ AUDIO_OUT = 0
  /\ sram = << >> /\ cp = CpPower

ir == Fetch(prog_rom, pc)

\* Eight registers at the bottom of segments 3 and 4.
Window    == RA_H = 0 /\ RA_L < 8
seg3_comm == SEG = 3 /\ Window
seg4_cp   == SEG = 4 /\ Window
Addr      == <<SEG, RA_H, RA_L>>
Target    == RA_L + BYTE * RA_H
Advance   == (pc + 1) % PCSIZE

alu_compute(a, b, xx) ==
  IF xx = 1 THEN (a + (BYTE - b)) % BYTE ELSE (a + b) % BYTE

\* Register 1 of segment 3, IO_IN, is never written and stays 0.
comm_read(idx) == CASE idx = 0 -> IO_OUT [] idx = 1 -> 0 [] OTHER -> 1

ram_read ==
  IF seg4_cp THEN CpRead(cp, RA_L)
  ELSE IF seg3_comm THEN comm_read(RA_L) ELSE Get(sram, Addr)

db == CASE ir[1] = IMM -> ir[3]
        [] ir[1] = ALU -> alu_compute(A, B, ir[3])
        [] ir[1] = RAM -> ram_read
        [] ir[1] = IO0 -> AUDIO_OUT

Load(dst, old) == IF ir[2] = dst THEN db ELSE old

\* A write to RAM, to a coprocessor register or to IO_OUT.
StoreCp   == cp' = IF ir[2] = D_RAM /\ seg4_cp THEN CpWrite(cp, RA_L, db) ELSE cp
StoreSram == sram' = IF ir[2] = D_RAM /\ ~seg4_cp /\ ~seg3_comm
                     THEN Put(sram, Addr, db) ELSE sram
StoreOut  == IO_OUT' = IF ir[2] = D_RAM /\ seg3_comm /\ RA_L = 0 THEN db ELSE IO_OUT

Segment ==
  /\ is_SEG(ir)
  /\ SEG' = ir[3] % 8 /\ pc' = Advance
  /\ UNCHANGED <<regvars, memvars>>

Idle ==
  /\ is_NOP(ir)
  /\ pc' = Advance
  /\ UNCHANGED <<SEG, regvars, memvars>>

Taken == is_JMP(ir) \/ (is_JCC(ir) /\ alu_compute(A, B, ir[3]) = 0)

Jump ==
  /\ is_JMP(ir) \/ is_JCC(ir)
  /\ pc' = IF Taken THEN Target ELSE Advance
  /\ UNCHANGED <<SEG, regvars, memvars>>

Move ==
  /\ is_data(ir)
  /\ A' = Load(D_A, A) /\ B' = Load(D_B, B)
  /\ RA_L' = Load(D_RA_L, RA_L) /\ RA_H' = Load(D_RA_H, RA_H)
  /\ AUDIO_OUT' = Load(D_IO0, AUDIO_OUT)
  /\ StoreCp /\ StoreSram /\ StoreOut
  /\ pc' = Advance
  /\ UNCHANGED SEG

Step == Segment \/ Idle \/ Jump \/ Move

\* A clock of the running CPU is one instruction.
Run == MODE /\ RST_n /\ Step

Download == \E i \in Image : sram' = Put(sram, i[1], i[2])

\* A clock of the CPU that does not run.  No register changes, but the
\* instruction at the program counter is still decoded: unless reset is held, a
\* jump that is taken is taken; a write goes to the coprocessor at every clock,
\* and to SRAM as long as MODE leaves SRAM to the CPU.  In MODE 0 the SRAM is the
\* host's, who fills it while it holds the CPU in reset.
Halt ==
  /\ ~(MODE /\ RST_n)
  /\ pc' = IF RST_n /\ Taken THEN Target ELSE pc
  /\ StoreCp
  /\ IF MODE THEN StoreSram ELSE UNCHANGED sram \/ (~RST_n /\ Download)
  /\ UNCHANGED <<SEG, regvars, IO_OUT>>

Clocked == (Run \/ Halt) /\ tick' = ~tick /\ UNCHANGED <<pinvars, prog_rom>>

\* The host moves its pins.  A reset goes back to instruction 0 and segment 0 and
\* forgets nothing else.
Pins ==
  /\ MODE' \in BOOLEAN /\ RST_n' \in BOOLEAN
  /\ pc' = IF RST_n' THEN pc ELSE 0
  /\ SEG' = IF RST_n' THEN SEG ELSE 0
  /\ UNCHANGED <<tick, prog_rom, regvars, memvars>>

IsaNext == Clocked \/ Pins

IsaSpec == IsaInit /\ [][IsaNext]_isavars
=============================================================================
