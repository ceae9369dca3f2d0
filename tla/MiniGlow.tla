------------------------------ MODULE MiniGlow ------------------------------
(***************************************************************************)
(* miniglow/rtl/miniglow_top.v chip by chip: the program counter of four   *)
(* 74HC161, the adder of two 74HC283 behind 74HC86, the registers of       *)
(* 74HC374, the SRAM, and the pins MODE and RST_n with which the host      *)
(* stops the CPU, downloads the SRAM and starts it.  Every clock is a      *)
(* clock of MiniIsa.                                                       *)
(***************************************************************************)
EXTENDS MiniInstr

CONSTANTS
  Programs,     \* environment: the programs in the ROM
  Image         \* environment: the <<address, byte>> pairs the host downloads

ASSUME GlowAssumption ==
  /\ \A p \in Programs : IsProgram(p)
  /\ Image \subseteq Address \X Byte

VARIABLES
  MODE, RST_n,          \* TRUE is high
  PROG_ROM,
  PC_Q,                 \* PC_Q[i]: U_PC0..3
  A_Q, B_Q, RA_L_Q, RA_H_Q, AUDIO_OUT_Q, IO_OUT_Q, SEG_r,
  mem,                  \* U_RAM
  cp,                   \* the coprocessor of miniglow_tb_cp.v
  tick                  \* history: parity of the clocks

Value(q) == q[0] + DIGIT * (q[1] + DIGIT * (q[2] + DIGIT * q[3]))

Sim == INSTANCE MiniIsa WITH
  prog_rom <- PROG_ROM, pc <- Value(PC_Q), A <- A_Q, B <- B_Q, RA_L <- RA_L_Q,
  RA_H <- RA_H_Q, SEG <- SEG_r, IO_OUT <- IO_OUT_Q, AUDIO_OUT <- AUDIO_OUT_Q,
  sram <- mem

Chip == 0..3

pinvars == <<MODE, RST_n>>
q374    == <<A_Q, B_Q, RA_L_Q, RA_H_Q, AUDIO_OUT_Q, IO_OUT_Q>>
vars    == <<pinvars, PROG_ROM, PC_Q, q374, SEG_r, mem, cp, tick>>

TypeOK ==
  /\ MODE \in BOOLEAN /\ RST_n \in BOOLEAN
  /\ IsProgram(PROG_ROM)
  /\ PC_Q \in [Chip -> Digit]
  /\ A_Q \in Byte /\ B_Q \in Byte /\ RA_L_Q \in Byte /\ RA_H_Q \in Byte
  /\ AUDIO_OUT_Q \in Byte /\ IO_OUT_Q \in Byte
  /\ SEG_r \in 0..7
  /\ DOMAIN mem \subseteq Address /\ \A a \in DOMAIN mem : mem[a] \in Byte
  /\ cp \in [data: Byte, out_l: Byte]
  /\ tick \in BOOLEAN

Init ==
  /\ MODE \in BOOLEAN /\ RST_n = FALSE
  /\ PROG_ROM \in Programs
  /\ PC_Q = [i \in Chip |-> 0]
  /\ A_Q = 0 /\ B_Q = 0 /\ RA_L_Q = 0 /\ RA_H_Q = 0
  /\ AUDIO_OUT_Q = 0 /\ IO_OUT_Q = 0 /\ SEG_r = 0
  /\ mem = << >> /\ cp = CpPower /\ tick = FALSE

IR_full == Fetch(PROG_ROM, Value(PC_Q))
src_hi  == IR_full[1]
dst_lo  == IR_full[2]
xx      == IR_full[3]
data_ir == is_data(IR_full)
cpu_run == MODE /\ RST_n

\* 74HC86 and 74HC283, twice: B or its complement is added, with a carry in for
\* SUB, low digit first.
sub_mode == xx = 1
Lo(v)    == v % DIGIT
Hi(v)    == v \div DIGIT
XorB(d)  == IF sub_mode THEN DIGIT - 1 - d ELSE d
Cin      == IF sub_mode THEN 1 ELSE 0
SumLo    == Lo(A_Q) + XorB(Lo(B_Q)) + Cin
c4_lo    == SumLo \div DIGIT

SumHi    == Hi(A_Q) + XorB(Hi(B_Q)) + c4_lo

\* Mutant of ALU_S: the carry out of the high adder is kept.
ALU_SNine == (SumLo % DIGIT) + DIGIT * SumHi

ALU_S    == (SumLo % DIGIT) + DIGIT * (SumHi % DIGIT)

seg4_cp_access   == SEG_r = 4 /\ RA_H_Q = 0 /\ Hi(RA_L_Q) * DIGIT + Lo(RA_L_Q) < 8
seg3_comm_access == SEG_r = 3 /\ RA_H_Q = 0 /\ Hi(RA_L_Q) * DIGIT + Lo(RA_L_Q) < 8
SRAM_ADDR_cpu    == <<SEG_r, RA_H_Q, RA_L_Q>>

comm_read_data == IF RA_L_Q = 1 THEN 0 ELSE IF RA_L_Q = 0 THEN IO_OUT_Q ELSE 1
RAM_read_data  ==
  IF seg4_cp_access THEN CpRead(cp, RA_L_Q)
  ELSE IF seg3_comm_access THEN comm_read_data ELSE Get(mem, SRAM_ADDR_cpu)

DB_oe == CASE src_hi = IMM -> xx
           [] src_hi = ALU -> ALU_S
           [] src_hi = RAM -> RAM_read_data
           [] src_hi = IO0 -> AUDIO_OUT_Q

dst_is_ram_write == data_ir /\ dst_lo = D_RAM
sram_write_cpu   == dst_is_ram_write /\ ~seg4_cp_access /\ ~seg3_comm_access

cp_write == dst_is_ram_write /\ seg4_cp_access

\* A 374 whose D is the bus when it is selected and its own Q otherwise.
Latch(dst, q) == IF data_ir /\ cpu_run /\ dst_lo = dst THEN DB_oe ELSE q

Latches ==
  /\ A_Q'         = Latch(D_A, A_Q)
  /\ B_Q'         = Latch(D_B, B_Q)
  /\ RA_L_Q'      = Latch(D_RA_L, RA_L_Q)
  /\ RA_H_Q'      = Latch(D_RA_H, RA_H_Q)
  /\ AUDIO_OUT_Q' = Latch(D_IO0, AUDIO_OUT_Q)
  /\ IO_OUT_Q'    = IF cpu_run /\ dst_is_ram_write /\ seg3_comm_access /\ RA_L_Q = 0
                    THEN DB_oe ELSE IO_OUT_Q
  /\ SEG_r'       = IF cpu_run /\ is_SEG(IR_full) THEN xx % 8 ELSE SEG_r

\* The load of the counters does not wait for cpu_run.
pc_load == is_JMP(IR_full) \/ (is_JCC(IR_full) /\ ALU_S = 0)

\* Mutant of pc_en: the counters do not wait for cpu_run.
pc_enUngated == ~pc_load

pc_en   == cpu_run /\ ~pc_load
TC(i)   == \A j \in 0..i : PC_Q[j] = DIGIT - 1
LoadData(i) == <<Lo(RA_L_Q), Hi(RA_L_Q), Lo(RA_H_Q), Hi(RA_H_Q)>>[i + 1]

\* Mutant of NextPC: the third counter is enabled by the second alone.
NextPCSkips ==
  [i \in Chip |->
     IF ~RST_n THEN 0
     ELSE IF pc_load THEN LoadData(i)
     ELSE IF pc_en /\ (i = 0 \/ (IF i = 2 THEN PC_Q[1] = DIGIT - 1 ELSE TC(i - 1)))
     THEN (PC_Q[i] + 1) % DIGIT
     ELSE PC_Q[i]]

\* MR before PE before the count; a chip counts when all below it are at their end.
NextPC ==
  [i \in Chip |->
     IF ~RST_n THEN 0
     ELSE IF pc_load THEN LoadData(i)
     ELSE IF pc_en /\ (i = 0 \/ TC(i - 1)) THEN (PC_Q[i] + 1) % DIGIT
     ELSE PC_Q[i]]

\* Mutant of Write: the address bus follows MODE but the write enable does not.
WriteUngated ==
  mem' = IF sram_write_cpu
         THEN Put(mem, IF MODE THEN SRAM_ADDR_cpu ELSE <<0, 0, 0>>, DB_oe) ELSE mem

\* The SRAM belongs to the CPU in MODE 1, reset or not, and to the host in MODE 0.
\* The host downloads while it holds the CPU in reset.
Write ==
  IF MODE THEN mem' = IF sram_write_cpu THEN Put(mem, SRAM_ADDR_cpu, DB_oe) ELSE mem
  ELSE \/ UNCHANGED mem
       \/ ~RST_n /\ \E i \in Image : mem' = Put(mem, i[1], i[2])

\* One posedge CLK.
Clock ==
  /\ Latches
  /\ PC_Q' = NextPC
  /\ Write
  /\ cp' = IF cp_write THEN CpWrite(cp, RA_L_Q, DB_oe) ELSE cp
  /\ tick' = ~tick
  /\ UNCHANGED <<pinvars, PROG_ROM>>

\* The host moves its pins between two clocks: it stops the CPU, resets it, hands
\* the SRAM back and lets the CPU go, or does two of these at once.  RST_n clears
\* the counters and the segment at once.
Pins ==
  /\ MODE' \in BOOLEAN /\ RST_n' \in BOOLEAN
  /\ PC_Q' = IF RST_n' THEN PC_Q ELSE [i \in Chip |-> 0]
  /\ SEG_r' = IF RST_n' THEN SEG_r ELSE 0
  /\ UNCHANGED <<PROG_ROM, q374, mem, cp, tick>>

Next == Clock \/ Pins

Spec == Init /\ [][Next]_vars
-----------------------------------------------------------------------------
\* Whatever the program and however the host moves its pins, every clock of a
\* running CPU is exactly one instruction of the simulator, and every clock of one
\* that is stopped or in reset is exactly Halt of MiniIsa: no register moves, the
\* program counter only if it stands at a jump that is taken, and a write at which
\* it stands repeats (miniglow_sim.c:2-6, miniglow_top.v:110-384).
Lockstep == Sim!IsaSpec

\* What the comment at miniglow_top.v:369 says of MODE 0: no instruction is
\* executed, the program counter and the registers hold, unless a reset comes.
StoppedHolds ==
  [][~MODE /\ ~MODE' /\ RST_n' => UNCHANGED <<PC_Q, q374, SEG_r>>]_vars
=============================================================================
