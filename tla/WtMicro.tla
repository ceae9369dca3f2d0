------------------------------- MODULE WtMicro ------------------------------
(***************************************************************************)
(* rtl/wt_ram.v with its microprogram step by step: one RAM access per     *)
(* clock through a registered address, 8-bit additions with a carry        *)
(* flip-flop, working registers, the mixer and the DAC.  The 62256 answers *)
(* a read combinationally and commits a write at the negedge, so a byte    *)
(* addressed in one clock is latched in the next, and a write of one clock *)
(* is visible in the next.                                                 *)
(***************************************************************************)
EXTENDS WtHost, Integers

CONSTANTS
  PowerOn,        \* the records a channel's RAM may hold at power-on
  Rom(_, _, _, _) \* the 39SF040: wave_idx, level, vol, phase index -> byte

ASSUME MicroAssumption ==
  /\ STEPS_PER_CH >= 19
  /\ PowerOn \subseteq [Offset -> Byte]
  /\ \A wave \in 0..7, level \in 0..LEVEL_MAX, vol \in 0..31, index \in Byte :
       Rom(wave, level, vol, index) \in Byte

VARIABLES
  mem,          \* the 62256
  ram_addr,     \* <<channel, offset>> on its address pins
  acc_lo, acc_hi, carry,
  level_r, env_state_r, env_cnt_r, vol_r, wave_idx_r,
  rom_addr,     \* <<wave_idx, level, vol, index>>
  mix_sum,
  dac_out,
  ch_active,
  settled,      \* history: mem as it was before the pass under way
  sums          \* history: sums[n], the signed samples of channels 0..n-1 added up

regvars == <<acc_lo, acc_hi, carry, level_r, env_state_r, env_cnt_r, vol_r,
             wave_idx_r, rom_addr, mix_sum, dac_out, ch_active>>
vars == <<timevars, hostvars, mem, ram_addr, regvars, settled, sums>>

ram_io   == mem[ram_addr[1]][ram_addr[2]]
rom_data == Rom(rom_addr[1], rom_addr[2], rom_addr[3], rom_addr[4])
Signed(x) == IF x >= BYTE \div 2 THEN x - BYTE ELSE x

\* phase[12:6]: five bits of the high byte, two of the low byte.
Index(lo, hi) == 4 * (hi % (BYTE \div 8)) + lo \div (BYTE \div 4)

TypeOK ==
  /\ HostTypeOK
  /\ mem \in [Chan -> [Offset -> Byte]] /\ settled \in [Chan -> [Offset -> Byte]]
  /\ ram_addr \in Chan \X Offset
  /\ acc_lo \in Byte /\ acc_hi \in Byte /\ carry \in {0, 1}
  /\ level_r \in 0..LEVEL_MAX /\ env_state_r \in 0..7 /\ env_cnt_r \in Byte
  /\ vol_r \in 0..31 /\ wave_idx_r \in 0..7
  /\ rom_addr \in (0..7) \X (0..LEVEL_MAX) \X (0..31) \X Byte
  /\ mix_sum \in 0..(CHANS * BYTE) /\ dac_out \in Byte
  /\ ch_active \in [Chan -> BOOLEAN]
  /\ sums \in [0..CHANS -> Int]

Init ==
  /\ HostInit
  /\ mem \in [Chan -> PowerOn]
  /\ settled = mem
  /\ ram_addr = <<0, 0>>
  /\ acc_lo = 0 /\ acc_hi = 0 /\ carry = 0
  /\ level_r = 0 /\ env_state_r = 0 /\ env_cnt_r = 0 /\ vol_r = 0
  /\ wave_idx_r = 0 /\ rom_addr = <<0, 0, 0, 0>>
  /\ mix_sum = 0 /\ dac_out = 0
  /\ ch_active = [c \in Chan |-> FALSE]
  /\ sums = [n \in 0..CHANS |-> 0]

\* The offsets that the reading microsteps address.
ReadStep(s) ==
  CASE s = 0  -> O_PHASE_LO  [] s = 1  -> O_STEP_LO
    [] s = 3  -> O_PHASE_HI  [] s = 4  -> O_STEP_HI
    [] s = 6  -> O_LEVEL     [] s = 7  -> O_VOL
    [] s = 8  -> O_WAVE_IDX  [] s = 9  -> O_ENV_STATE
    [] s = 12 -> O_ENV_CNT   [] s = 13 -> O_ENV_RATE
Reads == {0, 1, 3, 4, 6, 7, 8, 9, 12, 13}

\* Mutant of WriteStep: the carry out of the low byte is dropped.
WriteStepNoCarry(s, addend) ==
  CASE s = 2  -> <<O_PHASE_LO, (acc_lo + addend) % BYTE>>
    [] s = 5  -> <<O_PHASE_HI, (acc_hi + addend) % BYTE>>
    [] s = 15 -> <<O_ENV_STATE, env_state_r>>
    [] s = 16 -> <<O_LEVEL, level_r>>
    [] s = 17 -> <<O_ENV_CNT, env_cnt_r>>
    [] s = 18 -> <<O_DAC_OUT, IF env_state_r # OFF THEN rom_data ELSE 0>>

\* What the writing microsteps write; addend is the adder's second input.
WriteStep(s, addend) ==
  CASE s = 2  -> <<O_PHASE_LO, (acc_lo + addend) % BYTE>>
    [] s = 5  -> <<O_PHASE_HI, (acc_hi + addend + carry) % BYTE>>
    [] s = 15 -> <<O_ENV_STATE, env_state_r>>
    [] s = 16 -> <<O_LEVEL, level_r>>
    [] s = 17 -> <<O_ENV_CNT, env_cnt_r>>
    [] s = 18 -> <<O_DAC_OUT, IF env_state_r # OFF THEN rom_data ELSE 0>>
Writes == {2, 5, 15, 16, 17, 18}

RamAccess(s, addend) ==
  \/ /\ s \in Reads
     /\ ram_addr' = <<uch, ReadStep(s)>>
     /\ UNCHANGED mem
  \/ /\ s \in Writes
     /\ ram_addr' = <<uch, WriteStep(s, addend)[1]>>
     /\ mem' = [mem EXCEPT ![uch][WriteStep(s, addend)[1]] = WriteStep(s, addend)[2]]
  \/ /\ s \notin Reads \cup Writes
     /\ UNCHANGED <<ram_addr, mem>>

Accumulate(s, addend) ==
  /\ acc_lo' = CASE s = 1 -> ram_io
                 [] s = 2 -> (acc_lo + addend) % BYTE
                 [] OTHER -> acc_lo
  /\ acc_hi' = CASE s = 4 -> ram_io
                 [] s = 5 -> (acc_hi + addend + carry) % BYTE
                 [] OTHER -> acc_hi
  /\ carry' = CASE s = 2 -> (acc_lo + addend) \div BYTE
                [] s = 5 -> (acc_hi + addend + carry) \div BYTE
                [] OTHER -> carry

\* Step 14 works on the latched state and level and on the rate just read.
EnvFires(s) == s = 14 /\ env_state_r # OFF /\ env_cnt_r >= ram_io
\* Mutant of Envelope: an attack that knows no top level.
EnvelopeNoTop(s) ==
  /\ level_r' =
       CASE s = 7 -> ram_io % (LEVEL_MAX + 1)
         [] EnvFires(s) /\ env_state_r = ATTACK -> level_r + 1
         [] EnvFires(s) /\ env_state_r = RELEASE /\ level_r > 0 -> level_r - 1
         [] OTHER -> level_r
  /\ env_state_r' =
       CASE s = 10 -> ram_io % 8
         [] EnvFires(s) /\ env_state_r = RELEASE /\ level_r = 0 -> OFF
         [] OTHER -> env_state_r
  /\ env_cnt_r' =
       CASE s = 13 -> ram_io
         [] EnvFires(s) -> 0
         [] s = 14 /\ env_state_r # OFF /\ ~EnvFires(s) -> (env_cnt_r + 1) % BYTE
         [] OTHER -> env_cnt_r

Envelope(s) ==
  /\ level_r' =
       CASE s = 7 -> ram_io % (LEVEL_MAX + 1)
         [] EnvFires(s) /\ env_state_r = ATTACK /\ level_r < LEVEL_MAX
              -> level_r + 1
         [] EnvFires(s) /\ env_state_r = RELEASE /\ level_r > 0 -> level_r - 1
         [] OTHER -> level_r
  /\ env_state_r' =
       CASE s = 10 -> ram_io % 8
         [] EnvFires(s) /\ env_state_r = ATTACK /\ level_r = LEVEL_MAX -> SUSTAIN
         [] EnvFires(s) /\ env_state_r = RELEASE /\ level_r = 0 -> OFF
         [] OTHER -> env_state_r
  /\ env_cnt_r' =
       CASE s = 13 -> ram_io
         [] EnvFires(s) -> 0
         [] s = 14 /\ env_state_r # OFF /\ ~EnvFires(s) -> (env_cnt_r + 1) % BYTE
         [] OTHER -> env_cnt_r

\* Mutant of Mixer: a channel that is off is mixed too.
MixerAll(s) ==
  /\ vol_r'      = IF s = 8 THEN ram_io % 32 ELSE vol_r
  /\ wave_idx_r' = IF s = 9 THEN ram_io % 8 ELSE wave_idx_r
  /\ rom_addr'   = IF s = 10 /\ ram_io % 8 # OFF
                   THEN <<wave_idx_r, level_r, vol_r, Index(acc_lo, acc_hi)>>
                   ELSE rom_addr
  /\ mix_sum'    = IF s = 11 THEN mix_sum + rom_data ELSE mix_sum
  /\ dac_out'    = IF ustep = TOTAL_STEPS - 1 THEN mix_sum % BYTE ELSE dac_out
  /\ ch_active'  = IF s = 17
                   THEN [ch_active EXCEPT ![uch] = env_state_r # OFF]
                   ELSE ch_active

\* The clamp of step TOTAL_STEPS - 1 reaches mix_sum, not dac_out.
Mixer(s) ==
  /\ vol_r'      = IF s = 8 THEN ram_io % 32 ELSE vol_r
  /\ wave_idx_r' = IF s = 9 THEN ram_io % 8 ELSE wave_idx_r
  /\ rom_addr'   = IF s = 10 /\ ram_io % 8 # OFF
                   THEN <<wave_idx_r, level_r, vol_r, Index(acc_lo, acc_hi)>>
                   ELSE rom_addr
  /\ mix_sum'    = IF ustep = TOTAL_STEPS - 1 /\ mix_sum > BYTE \div 2 - 1
                   THEN BYTE \div 2 - 1
                   ELSE IF s = 11 /\ env_state_r # OFF THEN mix_sum + rom_data
                   ELSE mix_sum
  /\ dac_out'    = IF ustep = TOTAL_STEPS - 1 THEN mix_sum % BYTE ELSE dac_out
  /\ ch_active'  = IF s = 17
                   THEN [ch_active EXCEPT ![uch] = env_state_r # OFF]
                   ELSE ch_active

SampleStart ==
  /\ sample_start
  /\ mix_sum' = 0
  /\ UNCHANGED <<mem, ram_addr, acc_lo, acc_hi, carry, level_r, env_state_r,
                 env_cnt_r, vol_r, wave_idx_r, rom_addr, dac_out, ch_active>>

Micro(addend) ==
  /\ ~sample_start /\ ustep < TOTAL_STEPS
  /\ RamAccess(ums, addend)
  /\ Accumulate(ums, addend)
  /\ Envelope(ums)
  /\ Mixer(ums)

\* The adder takes its second input straight from the RAM pins.
MicroStep == Micro(ram_io)

IdleStep ==
  /\ idle
  /\ ~mail.pending
  /\ UNCHANGED <<mem, ram_addr, regvars>>

\* Mutant of MailStep: the shadow activity bit is forgotten.
MailStepNoShadow ==
  /\ idle
  /\ mail.pending
  /\ mem' = Serve(mem)
  /\ ram_addr' = <<mail.ch, IF mail.op = NOTE_ON THEN NoteOffset(mail.phase)
                                                 ELSE O_ENV_STATE>>
  /\ UNCHANGED regvars

MailStep ==
  /\ idle
  /\ mail.pending
  /\ mem' = Serve(mem)
  /\ ram_addr' = <<mail.ch, IF mail.op = NOTE_ON THEN NoteOffset(mail.phase)
                                                 ELSE O_ENV_STATE>>
  /\ ch_active' = IF mail.op = NOTE_ON /\ mail.phase = 9
                  THEN [ch_active EXCEPT ![mail.ch] = TRUE] ELSE ch_active
  /\ UNCHANGED <<acc_lo, acc_hi, carry, level_r, env_state_r, env_cnt_r, vol_r,
                 wave_idx_r, rom_addr, mix_sum, dac_out>>

\* The sample that record r asks for, straight from RAM.
Sample(r) ==
  IF r[O_ENV_STATE] % 8 = OFF THEN 0
  ELSE Signed(Rom(r[O_WAVE_IDX] % 8, r[O_LEVEL] % (LEVEL_MAX + 1), r[O_VOL] % 32,
                  Index(r[O_PHASE_LO], r[O_PHASE_HI])))

\* Steps 3..17 come after a first and before the last write of a pass.
InPass(u) == u < TOTAL_STEPS /\ u % STEPS_PER_CH \in 3..17

History ==
  /\ settled' = IF InPass(ustep') THEN settled ELSE mem'
  /\ sums' = IF ~sample_start /\ ustep < TOTAL_STEPS /\ ums = 11
             THEN [sums EXCEPT ![uch + 1] = sums[uch] + Sample(mem[uch])] ELSE sums

Clock ==
  /\ \E reg \in Reg : \E v \in Input(reg) : DataWrite(reg, v)
  /\ Tick
  /\ SampleStart \/ MicroStep \/ IdleStep \/ MailStep
  /\ History

Reset ==
  /\ HostReset
  /\ ram_addr' = <<0, 0>>
  /\ acc_lo' = 0 /\ acc_hi' = 0 /\ carry' = 0
  /\ level_r' = 0 /\ env_state_r' = 0 /\ env_cnt_r' = 0 /\ vol_r' = 0
  /\ wave_idx_r' = 0 /\ rom_addr' = <<0, 0, 0, 0>>
  /\ mix_sum' = 0 /\ dac_out' = 0
  /\ ch_active' = [c \in Chan |-> FALSE]
  /\ sums' = [n \in 0..CHANS |-> 0]
  /\ UNCHANGED mem
  /\ settled' = mem

Next == Clock \/ Reset

Spec == Init /\ [][Next]_vars
-----------------------------------------------------------------------------
Masked(r) == [r EXCEPT ![O_DAC_OUT] = 0]
NoDac(m)  == [c \in Chan |-> Masked(m[c])]

Abs == INSTANCE WtSynth WITH ram <- NoDac(settled), PASS_STEP <- 17,
                             PowerOn <- {Masked(r) : r \in PowerOn}

\* The microprogram, its registers and its one access per clock do to every
\* channel what one atomic pass does: a 16-bit phase += step with the carry
\* between the bytes, one envelope step, and the shadow activity bit
\* (wt_ram.v:271-418); a reset in the middle tears it as WtSynth says.
Atomic == Abs!Spec

\* Between two microprograms the DAC shows the signed sum of the samples the
\* channels' records ask for, as long as that sum fits its 8 bits: unsigned
\* accumulation, the misplaced clamp and a pipeline of registers shared by all
\* channels change nothing (wt_ram.v:332-345, 422-427).
DacExact ==
  ustep = TOTAL_STEPS /\ sums[CHANS] \in (0 - BYTE \div 2)..(BYTE \div 2 - 1)
    => Signed(dac_out) = sums[CHANS]
=============================================================================
