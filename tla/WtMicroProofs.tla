--------------------------- MODULE WtMicroProofs ----------------------------
(***************************************************************************)
(* The microprogram of rtl/wt_ram.v does to every channel's record what    *)
(* one atomic pass of WtSynth does, and the DAC shows the signed sum of    *)
(* the samples, for every number of channels, byte width, envelope depth,  *)
(* wavetable, power-on content and host.                                   *)
(***************************************************************************)
EXTENDS WtMicro, TLAPS

\* A sample period holds at least the microprogram and the clock that starts it.
ASSUME PeriodAssumption == SAMPLE_DIV > TOTAL_STEPS

\* While the microprogram runs the divider says how far it is, so no sample
\* starts in the middle of it.
InStep == ustep < TOTAL_STEPS => ustep + sample_cnt = SAMPLE_DIV - 1

\* The record of the channel under way as its pass found it.
Found == settled[uch]

\* How many of a pass's first four writes have been made before microstep s.
WrittenAt(s) ==
  CASE s \in 3..5  -> 1
    [] s \in 6..15 -> 2
    [] s = 16      -> 3
    [] s = 17      -> 4
    [] OTHER       -> 0

\* The RAM is the settled one but for what the pass under way has written.
RamInv ==
  mem = IF InPass(ustep)
        THEN [settled EXCEPT ![uch] = Abs!Torn(Found, WrittenAt(ums))]
        ELSE settled

\* A byte that a microstep reads has been addressed by the one before.
AddrInv ==
  ustep < TOTAL_STEPS /\ ums > 0 /\ ums - 1 \in Reads
    => ram_addr = <<uch, ReadStep(ums - 1)>>

\* The adder: operands, carry and sums, until the ROM has been addressed.
PhaseInv ==
  ustep < TOTAL_STEPS =>
    /\ ums = 2 => acc_lo = Found[O_PHASE_LO]
    /\ ums \in 3..10 => acc_lo = Abs!Pass(Found)[O_PHASE_LO]
    /\ ums \in 3..5 => carry = (Found[O_PHASE_LO] + Found[O_STEP_LO]) \div BYTE
    /\ ums = 5 => acc_hi = Found[O_PHASE_HI]
    /\ ums \in 6..10 => acc_hi = Abs!Pass(Found)[O_PHASE_HI]

\* The envelope's registers: as read, and as step 14 leaves them for the writes.
EnvInv ==
  ustep < TOTAL_STEPS =>
    /\ ums \in 8..14 => level_r = Abs!EnvLevel(Found)
    /\ ums \in 11..14 => env_state_r = Abs!EnvState(Found)
    /\ ums = 14 => env_cnt_r = Found[O_ENV_CNT]
    /\ ums \in 15..17 => /\ level_r = Abs!NextLevel(Found)
                         /\ env_state_r = Abs!NextState(Found)
                         /\ env_cnt_r = Abs!NextCnt(Found)

\* The address that looks the sample up.
ToneInv ==
  ustep < TOTAL_STEPS =>
    /\ ums \in 9..10 => vol_r = Found[O_VOL] % 32
    /\ ums = 10 => wave_idx_r = Found[O_WAVE_IDX] % 8
    /\ ums = 11 /\ Abs!EnvState(Found) # OFF =>
         rom_addr = <<Found[O_WAVE_IDX] % 8, Abs!EnvLevel(Found), Found[O_VOL] % 32,
                      Index(Abs!Pass(Found)[O_PHASE_LO], Abs!Pass(Found)[O_PHASE_HI])>>

\* Channels whose sample is in the mix.
Mixed == IF ustep < TOTAL_STEPS /\ ums > 11 THEN uch + 1 ELSE uch

\* The unsigned mix exceeds the signed sum by one BYTE for every negative sample.
MixInv ==
  /\ sums[0] = 0
  /\ ustep < TOTAL_STEPS =>
       \E n \in 0..Mixed : mix_sum = sums[Mixed] + BYTE * n
  /\ ustep = TOTAL_STEPS =>
       \E n \in 0..CHANS : dac_out = (sums[CHANS] + BYTE * n) % BYTE

\* The mix has one sample for every channel mixed.
BoundInv == ustep < TOTAL_STEPS => mix_sum <= BYTE * Mixed

PassInv  == RamInv /\ AddrInv /\ PhaseInv /\ EnvInv /\ ToneInv
MicroInv == TypeOK /\ BoundInv /\ InStep /\ PassInv /\ MixInv
-----------------------------------------------------------------------------
LEMMA Sizes ==
  /\ CHANS \in Nat \ {0} /\ STEPS_PER_CH \in Nat /\ STEPS_PER_CH >= 19
  /\ TOTAL_STEPS \in Nat /\ TOTAL_STEPS = CHANS * STEPS_PER_CH /\ TOTAL_STEPS > 0
  /\ SAMPLE_DIV \in Nat /\ SAMPLE_DIV > TOTAL_STEPS
  /\ BYTE \in Nat /\ BYTE >= 8 /\ LEVEL_MAX \in Nat /\ LEVEL_MAX < BYTE
  /\ Wait \in Nat
  BY HostAssumption, MicroAssumption, PeriodAssumption DEF TOTAL_STEPS

LEMMA Quotient ==
  ASSUME NEW q \in Nat, NEW d \in Nat, NEW r \in 0..(d - 1)
  PROVE  (d * q + r) \div d = q /\ (d * q + r) % d = r
  OBVIOUS

LEMMA Residue ==
  ASSUME NEW q \in Int, NEW d \in Nat, NEW r \in 0..(d - 1)
  PROVE  (d * q + r) % d = r
  OBVIOUS

LEMMA Parts ==
  ASSUME NEW x \in Nat, NEW d \in Nat \ {0}
  PROVE  /\ x \div d \in Nat /\ x % d \in 0..(d - 1)
         /\ x = d * (x \div d) + (x % d)
  OBVIOUS

\* The step counter names a channel and a microstep of it.
LEMMA StepParts ==
  ASSUME ustep \in 0..TOTAL_STEPS, ustep < TOTAL_STEPS
  PROVE  uch \in Chan /\ ums \in 0..(STEPS_PER_CH - 1)
<1>1. uch \in Nat /\ ums \in 0..(STEPS_PER_CH - 1) /\ ustep = STEPS_PER_CH * uch + ums
  <2>1. ustep \in Nat /\ STEPS_PER_CH \in Nat \ {0}
    BY Sizes
  <2>2. QED
    BY <2>1, Parts DEF uch, ums
<1>2. \A c, q \in Nat : c <= q => STEPS_PER_CH * c <= STEPS_PER_CH * q
  BY Sizes
<1>3. ~(CHANS <= uch)
  BY <1>1, <1>2, Sizes
<1>4. QED
  BY <1>1, <1>3, Sizes DEF Chan

\* The next step is the next microstep of this channel or the first of the next.
LEMMA StepAdvance ==
  ASSUME ustep \in 0..TOTAL_STEPS, ustep < TOTAL_STEPS, ustep' = ustep + 1
  PROVE  /\ ums # STEPS_PER_CH - 1 => uch' = uch /\ ums' = ums + 1 /\ ustep' < TOTAL_STEPS
         /\ ums = STEPS_PER_CH - 1 => uch' = uch + 1 /\ ums' = 0
         /\ ustep' = TOTAL_STEPS => uch' = CHANS /\ ums' = 0
<1>1. uch \in Nat /\ ums \in 0..(STEPS_PER_CH - 1) /\ ustep = STEPS_PER_CH * uch + ums
  <2>1. ustep \in Nat /\ STEPS_PER_CH \in Nat \ {0}
    BY Sizes
  <2>2. QED
    BY <2>1, Parts DEF uch, ums
<1>2. CASE ums # STEPS_PER_CH - 1
  <2>1. ustep' = STEPS_PER_CH * uch + (ums + 1) /\ ums + 1 \in 0..(STEPS_PER_CH - 1)
    BY <1>1, <1>2, Sizes
  <2>2. (STEPS_PER_CH * uch + (ums + 1)) \div STEPS_PER_CH = uch
        /\ (STEPS_PER_CH * uch + (ums + 1)) % STEPS_PER_CH = ums + 1
    BY <1>1, <2>1, Sizes, Quotient
  <2>3. uch' = uch /\ ums' = ums + 1
    BY <2>1, <2>2 DEF uch, ums
  <2>4. TOTAL_STEPS \div STEPS_PER_CH = CHANS /\ TOTAL_STEPS % STEPS_PER_CH = 0
    <3>1. STEPS_PER_CH * CHANS + 0 = TOTAL_STEPS /\ 0 \in 0..(STEPS_PER_CH - 1)
      BY Sizes
    <3>2. QED
      BY <3>1, Sizes, Quotient
  <2>5. ustep' # TOTAL_STEPS
    <3>1. ums' # TOTAL_STEPS % STEPS_PER_CH
      BY <1>1, <2>3, <2>4
    <3>2. QED
      BY <3>1 DEF ums
  <2>6. QED
    BY <1>1, <1>2, <2>3, <2>5, Sizes
<1>3. CASE ums = STEPS_PER_CH - 1
  <2>1. ustep' = STEPS_PER_CH * (uch + 1) + 0
    BY <1>1, <1>3, Sizes
  <2>2. (STEPS_PER_CH * (uch + 1) + 0) \div STEPS_PER_CH = uch + 1
        /\ (STEPS_PER_CH * (uch + 1) + 0) % STEPS_PER_CH = 0
    BY <1>1, Sizes, Quotient
  <2>3. uch' = uch + 1 /\ ums' = 0
    BY <2>1, <2>2 DEF uch, ums
  <2>4. ustep' = TOTAL_STEPS => uch' = CHANS
    <3>1. TOTAL_STEPS = STEPS_PER_CH * CHANS + 0
      BY Sizes
    <3>2. (STEPS_PER_CH * CHANS + 0) \div STEPS_PER_CH = CHANS
      BY Sizes, Quotient
    <3>3. QED
      BY <3>1, <3>2 DEF uch
  <2>5. QED
    BY <1>3, <2>3, <2>4
<1>4. QED
  BY <1>2, <1>3

\* A sum of two bytes and a carry is a byte and a carry.
LEMMA ByteSum ==
  ASSUME NEW x \in Byte, NEW y \in Byte, NEW c \in {0, 1}
  PROVE  /\ (x + y + c) % BYTE \in Byte /\ (x + y + c) \div BYTE \in {0, 1}
         /\ x + y + c = BYTE * ((x + y + c) \div BYTE) + ((x + y + c) % BYTE)
<1>1. x + y + c \in Nat /\ x + y + c < 2 * BYTE
  BY Sizes DEF Byte
<1>2. (x + y + c) % BYTE \in Byte /\ (x + y + c) \div BYTE \in Nat
      /\ x + y + c = BYTE * ((x + y + c) \div BYTE) + ((x + y + c) % BYTE)
  BY <1>1, Sizes, Parts DEF Byte
<1>3. (x + y + c) \div BYTE < 2
  BY <1>1, Sizes
<1>4. QED
  BY <1>2, <1>3

\* The index of a phase is a byte.
LEMMA IndexByte ==
  ASSUME NEW lo \in Byte, NEW hi \in Byte
  PROVE  Index(lo, hi) \in Byte
<1> DEFINE d == BYTE \div 8
           e == BYTE \div 4
<1>1. d \in Nat \ {0} /\ e \in Nat \ {0} /\ 8 * d <= BYTE /\ BYTE < 4 * e + 4 /\ e >= 2
  BY Sizes
<1> HIDE DEF d, e
<1>2. hi % d \in 0..(d - 1)
  BY <1>1, Sizes, Parts DEF Byte
<1>3. lo \div e \in 0..5
  <2>1. lo \in Nat /\ lo < 4 * e + 4
    BY <1>1, Sizes DEF Byte
  <2>2. lo \div e \in Nat /\ lo % e \in 0..(e - 1) /\ lo = e * (lo \div e) + (lo % e)
    BY <1>1, <2>1, Parts
  <2>3. \A q \in Nat : q >= 6 => e * q >= 6 * e
    BY <1>1
  <2>4. QED
    BY <1>1, <2>1, <2>2, <2>3
<1>4. 4 * (hi % d) + lo \div e \in Byte
  BY <1>1, <1>2, <1>3, Sizes DEF Byte
<1>5. QED
  BY <1>4 DEF Index, d, e
-----------------------------------------------------------------------------
LEMMA Offsets ==
  /\ O_PHASE_LO = 0 /\ O_PHASE_HI = 1 /\ O_STEP_LO = 2 /\ O_STEP_HI = 3
  /\ O_LEVEL = 4 /\ O_ENV_STATE = 5 /\ O_ENV_CNT = 6 /\ O_VOL = 7
  /\ O_DAC_OUT = 8 /\ O_WAVE_IDX = 9 /\ O_ENV_RATE = 10 /\ Offset = 0..10
  /\ OFF = 0 /\ ATTACK = 1 /\ SUSTAIN = 2 /\ RELEASE = 3
  BY DEF O_PHASE_LO, O_PHASE_HI, O_STEP_LO, O_STEP_HI, O_LEVEL, O_ENV_STATE,
         O_ENV_CNT, O_VOL, O_DAC_OUT, O_WAVE_IDX, O_ENV_RATE, Offset, OFF, ATTACK,
         SUSTAIN, RELEASE

\* The abstract specification names the same bytes and states.
LEMMA SameNames ==
  /\ Abs!O_PHASE_LO = O_PHASE_LO /\ Abs!O_PHASE_HI = O_PHASE_HI
  /\ Abs!O_STEP_LO = O_STEP_LO /\ Abs!O_STEP_HI = O_STEP_HI
  /\ Abs!O_LEVEL = O_LEVEL /\ Abs!O_ENV_STATE = O_ENV_STATE
  /\ Abs!O_ENV_CNT = O_ENV_CNT /\ Abs!O_VOL = O_VOL /\ Abs!O_DAC_OUT = O_DAC_OUT
  /\ Abs!O_WAVE_IDX = O_WAVE_IDX /\ Abs!O_ENV_RATE = O_ENV_RATE
  /\ Abs!Offset = Offset /\ Abs!HostParam = HostParam
  /\ Abs!OFF = OFF /\ Abs!ATTACK = ATTACK /\ Abs!SUSTAIN = SUSTAIN
  /\ Abs!RELEASE = RELEASE /\ Abs!NOTE_ON = NOTE_ON /\ Abs!NOTE_OFF = NOTE_OFF
  /\ Abs!Chan = Chan /\ Abs!Byte = Byte /\ Abs!TOTAL_STEPS = TOTAL_STEPS
  /\ Abs!uch = uch /\ Abs!ums = ums /\ Abs!sample_start = sample_start /\ Abs!idle = idle
  BY DEF Abs!O_PHASE_LO, Abs!O_PHASE_HI, Abs!O_STEP_LO, Abs!O_STEP_HI, Abs!O_LEVEL,
         Abs!O_ENV_STATE, Abs!O_ENV_CNT, Abs!O_VOL, Abs!O_DAC_OUT, Abs!O_WAVE_IDX,
         Abs!O_ENV_RATE, Abs!Offset, Abs!HostParam, Abs!OFF, Abs!ATTACK, Abs!SUSTAIN,
         Abs!RELEASE, Abs!NOTE_ON, Abs!NOTE_OFF, Abs!Chan, Abs!Byte, Abs!TOTAL_STEPS,
         Abs!uch, Abs!ums, Abs!sample_start, Abs!idle,
         O_PHASE_LO, O_PHASE_HI, O_STEP_LO, O_STEP_HI, O_LEVEL, O_ENV_STATE,
         O_ENV_CNT, O_VOL, O_DAC_OUT, O_WAVE_IDX, O_ENV_RATE, Offset, HostParam, OFF,
         ATTACK, SUSTAIN, RELEASE, NOTE_ON, NOTE_OFF, Chan, Byte, TOTAL_STEPS,
         uch, ums, sample_start, idle

\* Two additions of bytes with a carry between them add two words.
LEMMA WordSum ==
  ASSUME NEW a \in Byte, NEW b \in Byte, NEW h \in Byte, NEW g \in Byte
  PROVE  LET w == (a + b + BYTE * (h + g)) % (BYTE * BYTE)
         IN  /\ w % BYTE = (a + b) % BYTE
             /\ w \div BYTE = (h + g + ((a + b) \div BYTE)) % BYTE
<1> DEFINE c == (a + b) \div BYTE
           l == (a + b) % BYTE
           d == (h + g + c) \div BYTE
           m == (h + g + c) % BYTE
<1>1. l \in Byte /\ c \in {0, 1} /\ a + b = BYTE * c + l
  <2>1. a + b + 0 = a + b
    BY Sizes DEF Byte
  <2>2. QED
    BY <2>1, ByteSum
<1>2. m \in Byte /\ d \in {0, 1} /\ h + g + c = BYTE * d + m
  BY <1>1, ByteSum
<1> HIDE DEF c, l, d, m
<1>3. a + b + BYTE * (h + g) = (BYTE * BYTE) * d + (BYTE * m + l)
  <2>1. a + b + BYTE * (h + g) = l + BYTE * (h + g + c)
    BY <1>1, Sizes DEF Byte
  <2>2. BYTE * (BYTE * d + m) = (BYTE * BYTE) * d + BYTE * m
    BY <1>2, Sizes DEF Byte
  <2>3. QED
    BY <1>1, <1>2, <2>1, <2>2, Sizes DEF Byte
<1>4. BYTE * m + l \in 0..(BYTE * BYTE - 1) /\ BYTE * BYTE \in Nat
  <2>1. BYTE * m + BYTE <= BYTE * BYTE
    <3>1. \A n \in Nat : n + 1 <= BYTE => BYTE * n + BYTE <= BYTE * BYTE
      BY Sizes
    <3>2. QED
      BY <1>2, <3>1, Sizes DEF Byte
  <2>2. QED
    BY <1>1, <1>2, <2>1, Sizes DEF Byte
<1>5. (a + b + BYTE * (h + g)) % (BYTE * BYTE) = BYTE * m + l
  BY <1>2, <1>3, <1>4, Quotient
<1>6. (BYTE * m + l) % BYTE = l /\ (BYTE * m + l) \div BYTE = m
  BY <1>1, <1>2, Quotient, Sizes DEF Byte
<1>7. QED
  BY <1>5, <1>6 DEF l, m, c

\* What a pass leaves in a record, byte by byte.
LEMMA PassBytes ==
  ASSUME NEW r \in [Offset -> Byte]
  PROVE  /\ Abs!Pass(r) \in [Offset -> Byte]
         /\ Abs!Pass(r)[O_PHASE_LO] = (r[O_PHASE_LO] + r[O_STEP_LO]) % BYTE
         /\ Abs!Pass(r)[O_PHASE_HI] =
              (r[O_PHASE_HI] + r[O_STEP_HI]
                + ((r[O_PHASE_LO] + r[O_STEP_LO]) \div BYTE)) % BYTE
         /\ Abs!Pass(r)[O_ENV_STATE] = Abs!NextState(r)
         /\ Abs!Pass(r)[O_LEVEL] = Abs!NextLevel(r)
         /\ Abs!Pass(r)[O_ENV_CNT] = Abs!NextCnt(r)
         /\ \A o \in {O_STEP_LO, O_STEP_HI, O_VOL, O_DAC_OUT, O_WAVE_IDX, O_ENV_RATE} :
              Abs!Pass(r)[o] = r[o]
         /\ Abs!EnvState(r) \in 0..7 /\ Abs!NextState(r) \in 0..7
         /\ Abs!EnvLevel(r) \in 0..LEVEL_MAX /\ Abs!NextLevel(r) \in 0..LEVEL_MAX
         /\ Abs!NextCnt(r) \in Byte
<1>1. \A o \in Offset : r[o] \in Byte /\ r[o] \in Nat /\ r[o] < BYTE
  BY Sizes DEF Byte
<1>2. /\ Abs!NextPhase(r) % BYTE = (r[O_PHASE_LO] + r[O_STEP_LO]) % BYTE
      /\ Abs!NextPhase(r) \div BYTE =
           (r[O_PHASE_HI] + r[O_STEP_HI]
             + ((r[O_PHASE_LO] + r[O_STEP_LO]) \div BYTE)) % BYTE
  <2>1. r[O_PHASE_LO] \in Byte /\ r[O_STEP_LO] \in Byte
        /\ r[O_PHASE_HI] \in Byte /\ r[O_STEP_HI] \in Byte
    BY Offsets
  <2>2. QED
    BY <2>1, WordSum, SameNames DEF Abs!NextPhase
<1>3. /\ (r[O_PHASE_LO] + r[O_STEP_LO]) % BYTE \in Byte
      /\ (r[O_PHASE_HI] + r[O_STEP_HI]
            + ((r[O_PHASE_LO] + r[O_STEP_LO]) \div BYTE)) % BYTE \in Byte
  <2>1. r[O_PHASE_LO] \in Byte /\ r[O_STEP_LO] \in Byte
        /\ r[O_PHASE_HI] \in Byte /\ r[O_STEP_HI] \in Byte
    BY Offsets
  <2>2. r[O_PHASE_LO] + r[O_STEP_LO] + 0 = r[O_PHASE_LO] + r[O_STEP_LO]
    BY <2>1, Sizes DEF Byte
  <2>3. (r[O_PHASE_LO] + r[O_STEP_LO]) % BYTE \in Byte
        /\ (r[O_PHASE_LO] + r[O_STEP_LO]) \div BYTE \in {0, 1}
    BY <2>1, <2>2, ByteSum
  <2>4. QED
    BY <2>1, <2>3, ByteSum
<1>4. Abs!EnvState(r) \in 0..7 /\ Abs!EnvLevel(r) \in 0..LEVEL_MAX
  BY <1>1, Offsets, SameNames, Sizes DEF Abs!EnvState, Abs!EnvLevel
<1>5. Abs!NextState(r) \in 0..7
  BY <1>4, SameNames, Offsets DEF Abs!NextState
<1>6. Abs!NextLevel(r) \in 0..LEVEL_MAX
  BY <1>4, Sizes DEF Abs!NextLevel
<1>7. Abs!NextCnt(r) \in Byte
  <2>1. r[O_ENV_CNT] \in Byte /\ r[O_ENV_RATE] \in Byte
    BY Offsets
  <2>2. Abs!EnvFires(r) <=> Abs!EnvState(r) # OFF /\ r[O_ENV_CNT] >= r[O_ENV_RATE]
    BY SameNames DEF Abs!EnvFires
  <2>3. CASE Abs!EnvFires(r)
    BY <2>2, <2>3, SameNames, Sizes DEF Abs!NextCnt, Byte
  <2>4. CASE ~Abs!EnvFires(r) /\ Abs!EnvState(r) = OFF
    BY <2>1, <2>4, SameNames DEF Abs!NextCnt
  <2>5. CASE ~Abs!EnvFires(r) /\ Abs!EnvState(r) # OFF
    BY <2>1, <2>2, <2>5, SameNames, Sizes DEF Abs!NextCnt, Byte
  <2>6. QED
    BY <2>3, <2>4, <2>5
<1>8. \A n \in 0..7 : n \in Byte
  BY Sizes DEF Byte
<1>9. \A n \in 0..LEVEL_MAX : n \in Byte
  BY Sizes DEF Byte
<1>10. Abs!Pass(r) =
         [r EXCEPT ![O_PHASE_LO]  = Abs!NextPhase(r) % BYTE,
                   ![O_PHASE_HI]  = Abs!NextPhase(r) \div BYTE,
                   ![O_ENV_STATE] = Abs!NextState(r),
                   ![O_LEVEL]     = Abs!NextLevel(r),
                   ![O_ENV_CNT]   = Abs!NextCnt(r)]
  BY SameNames DEF Abs!Pass
<1>11. QED
  BY <1>2, <1>3, <1>4, <1>5, <1>6, <1>7, <1>8, <1>9, <1>10, Offsets

\* The records that a pass goes through, write by write.
LEMMA TornBytes ==
  ASSUME NEW r \in [Offset -> Byte]
  PROVE  /\ Abs!Torn(r, 0) = r
         /\ Abs!Torn(r, 1) = [r EXCEPT ![O_PHASE_LO] = Abs!Pass(r)[O_PHASE_LO]]
         /\ Abs!Torn(r, 2) =
              [Abs!Torn(r, 1) EXCEPT ![O_PHASE_HI] = Abs!Pass(r)[O_PHASE_HI]]
         /\ Abs!Torn(r, 3) = [Abs!Torn(r, 2) EXCEPT ![O_ENV_STATE] = Abs!NextState(r)]
         /\ Abs!Torn(r, 4) = [Abs!Torn(r, 3) EXCEPT ![O_LEVEL] = Abs!NextLevel(r)]
         /\ Abs!Pass(r) = [Abs!Torn(r, 4) EXCEPT ![O_ENV_CNT] = Abs!NextCnt(r)]
         /\ \A n \in 0..4 : Abs!Torn(r, n) \in [Offset -> Byte]
<1>1. /\ Abs!Written(0) = {} /\ Abs!Written(1) = {0} /\ Abs!Written(2) = {0, 1}
      /\ Abs!Written(3) = {0, 1, 5} /\ Abs!Written(4) = {0, 1, 5, 4}
  <2> DEFINE w == <<O_PHASE_LO, O_PHASE_HI, O_ENV_STATE, O_LEVEL>>
  <2>1. w[1] = 0 /\ w[2] = 1 /\ w[3] = 5 /\ w[4] = 4
    BY Offsets
  <2>2. \A n : Abs!Written(n) = {o \in 0..10 : \E i \in 1..n : o = w[i]}
    BY SameNames, Offsets DEF Abs!Written
  <2> HIDE DEF w
  <2>3. 1..0 = {} /\ 1..1 = {1} /\ 1..2 = {1, 2} /\ 1..3 = {1, 2, 3} /\ 1..4 = {1, 2, 3, 4}
    OBVIOUS
  <2>4. Abs!Written(0) = {}
    BY <2>2, <2>3
  <2>5. Abs!Written(1) = {0}
    BY <2>1, <2>2, <2>3
  <2>6. Abs!Written(2) = {0, 1}
    BY <2>1, <2>2, <2>3
  <2>7. Abs!Written(3) = {0, 1, 5}
    BY <2>1, <2>2, <2>3
  <2>8. Abs!Written(4) = {0, 1, 5, 4}
    BY <2>1, <2>2, <2>3
  <2>9. QED
    BY <2>4, <2>5, <2>6, <2>7, <2>8
<1>2. \A n : Abs!Torn(r, n) =
        [o \in Offset |-> IF o \in Abs!Written(n) THEN Abs!Pass(r)[o] ELSE r[o]]
  BY SameNames DEF Abs!Torn
<1>3. /\ Abs!Pass(r) \in [Offset -> Byte]
      /\ Abs!Pass(r)[5] = Abs!NextState(r) /\ Abs!Pass(r)[4] = Abs!NextLevel(r)
      /\ Abs!Pass(r)[6] = Abs!NextCnt(r)
      /\ \A o \in {2, 3, 7, 8, 9, 10} : Abs!Pass(r)[o] = r[o]
  BY PassBytes, Offsets
<1>4. Abs!Torn(r, 0) = r
  BY <1>1, <1>2
<1>5. Abs!Torn(r, 1) = [r EXCEPT ![O_PHASE_LO] = Abs!Pass(r)[O_PHASE_LO]]
  BY <1>1, <1>2, Offsets
<1>6. Abs!Torn(r, 2) = [Abs!Torn(r, 1) EXCEPT ![O_PHASE_HI] = Abs!Pass(r)[O_PHASE_HI]]
  BY <1>1, <1>2, Offsets
<1>7. Abs!Torn(r, 3) = [Abs!Torn(r, 2) EXCEPT ![O_ENV_STATE] = Abs!NextState(r)]
  BY <1>1, <1>2, <1>3, Offsets
<1>8. Abs!Torn(r, 4) = [Abs!Torn(r, 3) EXCEPT ![O_LEVEL] = Abs!NextLevel(r)]
  BY <1>1, <1>2, <1>3, Offsets
<1>9. Abs!Pass(r) = [Abs!Torn(r, 4) EXCEPT ![O_ENV_CNT] = Abs!NextCnt(r)]
  <2>1. \A o \in Offset : o \notin {0, 1, 4, 5} =>
          Abs!Torn(r, 4)[o] = r[o] /\ (o # 6 => Abs!Pass(r)[o] = r[o])
    BY <1>1, <1>2, <1>3, Offsets
  <2>2. \A o \in {0, 1, 4, 5} : Abs!Torn(r, 4)[o] = Abs!Pass(r)[o]
    BY <1>1, <1>2, Offsets
  <2>3. Abs!Torn(r, 4) \in [Offset -> Byte]
    BY <1>2, <1>3
  <2>4. QED
    BY <1>3, <2>1, <2>2, <2>3, Offsets
<1>10. \A n \in 0..4 : Abs!Torn(r, n) \in [Offset -> Byte]
  BY <1>2, <1>3
<1>11. QED
  BY <1>4, <1>5, <1>6, <1>7, <1>8, <1>9, <1>10

\* The output byte is no part of what a pass reads or writes.
LEMMA MaskedPass ==
  ASSUME NEW r \in [Offset -> Byte]
  PROVE  /\ Masked(r) \in [Offset -> Byte]
         /\ Abs!Pass(Masked(r)) = Masked(Abs!Pass(r))
         /\ Abs!NextState(Masked(r)) = Abs!NextState(r)
         /\ \A n \in 1..4 : Abs!Torn(Masked(r), n) = Masked(Abs!Torn(r, n))
<1>1. /\ Masked(r) \in [Offset -> Byte] /\ Masked(r)[8] = 0
      /\ \A o \in Offset \ {8} : Masked(r)[o] = r[o]
  BY Offsets, Sizes DEF Masked, Byte
<1>2. /\ Abs!EnvState(Masked(r)) = Abs!EnvState(r)
      /\ Abs!EnvLevel(Masked(r)) = Abs!EnvLevel(r)
      /\ Abs!NextPhase(Masked(r)) = Abs!NextPhase(r)
      /\ Masked(r)[O_ENV_CNT] = r[O_ENV_CNT] /\ Masked(r)[O_ENV_RATE] = r[O_ENV_RATE]
  BY <1>1, SameNames, Offsets DEF Abs!EnvState, Abs!EnvLevel, Abs!NextPhase
<1>3. Abs!EnvFires(Masked(r)) <=> Abs!EnvFires(r)
  BY <1>2, SameNames DEF Abs!EnvFires
<1>4. /\ Abs!NextState(Masked(r)) = Abs!NextState(r)
      /\ Abs!NextLevel(Masked(r)) = Abs!NextLevel(r)
      /\ Abs!NextCnt(Masked(r)) = Abs!NextCnt(r)
  BY <1>2, <1>3, SameNames DEF Abs!NextState, Abs!NextLevel, Abs!NextCnt
<1>5. Abs!Pass(Masked(r)) = Masked(Abs!Pass(r))
  <2>1. \A x : Abs!Pass(x) =
          [x EXCEPT ![0] = Abs!NextPhase(x) % BYTE, ![1] = Abs!NextPhase(x) \div BYTE,
                    ![5] = Abs!NextState(x), ![4] = Abs!NextLevel(x),
                    ![6] = Abs!NextCnt(x)]
    BY SameNames, Offsets DEF Abs!Pass
  <2>2. /\ Abs!Pass(Masked(r)) \in [Offset -> Byte] /\ Abs!Pass(r) \in [Offset -> Byte]
        /\ Masked(Abs!Pass(r)) \in [Offset -> Byte]
    <3>1. Abs!Pass(Masked(r)) \in [Offset -> Byte]
      BY <1>1, PassBytes
    <3>2. Abs!Pass(r) \in [Offset -> Byte]
      BY PassBytes
    <3>3. Masked(Abs!Pass(r)) \in [Offset -> Byte]
      BY <3>2, Offsets, Sizes DEF Masked, Byte
    <3>4. QED
      BY <3>1, <3>2, <3>3
  <2>3. \A o \in Offset : Abs!Pass(Masked(r))[o] = Masked(Abs!Pass(r))[o]
    BY <1>1, <1>2, <1>4, <2>1, <2>2, Offsets DEF Masked
  <2>4. QED
    BY <2>2, <2>3
<1>6. ASSUME NEW n \in 1..4 PROVE Abs!Torn(Masked(r), n) = Masked(Abs!Torn(r, n))
  <2>1. Abs!Pass(r) \in [Offset -> Byte] /\ Abs!Pass(r)[8] = r[8]
    BY PassBytes, Offsets
  <2>2. \A x : Abs!Torn(x, n) =
          [o \in Offset |-> IF o \in Abs!Written(n) THEN Abs!Pass(x)[o] ELSE x[o]]
    BY SameNames DEF Abs!Torn
  <2>3. \A o \in Offset : Abs!Pass(Masked(r))[o] = IF o = 8 THEN 0 ELSE Abs!Pass(r)[o]
    BY <1>5, <2>1, Offsets DEF Masked
  <2>4. \A o \in Offset : Abs!Torn(Masked(r), n)[o] = IF o = 8 THEN 0 ELSE Abs!Torn(r, n)[o]
    BY <1>1, <2>2, <2>3
  <2>5. QED
    BY <2>2, <2>4, Offsets DEF Masked
<1>7. QED
  BY <1>1, <1>4, <1>5, <1>6
-----------------------------------------------------------------------------
LEMMA FoundType ==
  ASSUME TypeOK, ustep < TOTAL_STEPS
  PROVE  uch \in Chan /\ ums \in 0..(STEPS_PER_CH - 1) /\ Found \in [Offset -> Byte]
<1>1. uch \in Chan /\ ums \in 0..(STEPS_PER_CH - 1)
  BY StepParts DEF TypeOK, HostTypeOK
<1>2. QED
  BY <1>1 DEF TypeOK, Found

\* What a microstep finds on the RAM's pins is a byte that this pass has not
\* written yet.
LEMMA ReadsFound ==
  ASSUME TypeOK, RamInv, AddrInv, ustep < TOTAL_STEPS, ums > 0, ums - 1 \in Reads
  PROVE  ram_io = Found[ReadStep(ums - 1)]
<1>1. uch \in Chan /\ ums \in Nat /\ Found \in [Offset -> Byte]
  BY FoundType
<1>2. ram_io = mem[uch][ReadStep(ums - 1)]
  BY DEF AddrInv, ram_io
<1>3. mem[uch] = Abs!Torn(Found, WrittenAt(ums))
  <2>1. CASE InPass(ustep)
    BY <1>1, <2>1 DEF RamInv, TypeOK
  <2>2. CASE ~InPass(ustep)
    <3>1. ums \notin 3..17
      BY <2>2 DEF InPass, ums
    <3>2. WrittenAt(ums) = 0
      BY <3>1 DEF WrittenAt
    <3>3. QED
      BY <1>1, <2>2, <3>2, TornBytes DEF RamInv, Found
  <2>3. QED
    BY <2>1, <2>2
<1>4. ums \in {1, 2, 4, 5, 7, 8, 9, 10, 13, 14}
  BY <1>1 DEF Reads
<1>5. CASE ums \in {1, 2}
  BY <1>1, <1>2, <1>3, <1>5, TornBytes DEF WrittenAt
<1>6. CASE ums \in {4, 5}
  <2>1. mem[uch] = [Found EXCEPT ![O_PHASE_LO] = Abs!Pass(Found)[O_PHASE_LO]]
    <3>1. WrittenAt(ums) = 1
      BY <1>6 DEF WrittenAt
    <3>2. QED
      BY <1>1, <1>3, <3>1, TornBytes
  <2>2. ReadStep(ums - 1) \in {O_PHASE_HI, O_STEP_HI}
    BY <1>6 DEF ReadStep
  <2>3. QED
    BY <1>1, <1>2, <2>1, <2>2, Offsets
<1>7. CASE ums \in {7, 8, 9, 10, 13, 14}
  <2>1. mem[uch] = [[Found EXCEPT ![O_PHASE_LO] = Abs!Pass(Found)[O_PHASE_LO]]
                           EXCEPT ![O_PHASE_HI] = Abs!Pass(Found)[O_PHASE_HI]]
    <3>1. WrittenAt(ums) = 2
      BY <1>7 DEF WrittenAt
    <3>2. QED
      BY <1>1, <1>3, <3>1, TornBytes
  <2>2. ReadStep(ums - 1) \in
          {O_LEVEL, O_VOL, O_WAVE_IDX, O_ENV_STATE, O_ENV_CNT, O_ENV_RATE}
    BY <1>7 DEF ReadStep
  <2>3. QED
    BY <1>1, <1>2, <2>1, <2>2, Offsets
<1>8. QED
  BY <1>4, <1>5, <1>6, <1>7

\* What the writing microsteps have to write.
LEMMA WritesPass ==
  ASSUME TypeOK, PassInv, ustep < TOTAL_STEPS
  PROVE  /\ ums = 2  => WriteStep(2, ram_io) = <<O_PHASE_LO, Abs!Pass(Found)[O_PHASE_LO]>>
         /\ ums = 5  => WriteStep(5, ram_io) = <<O_PHASE_HI, Abs!Pass(Found)[O_PHASE_HI]>>
         /\ ums = 15 => WriteStep(15, ram_io) = <<O_ENV_STATE, Abs!NextState(Found)>>
         /\ ums = 16 => WriteStep(16, ram_io) = <<O_LEVEL, Abs!NextLevel(Found)>>
         /\ ums = 17 => WriteStep(17, ram_io) = <<O_ENV_CNT, Abs!NextCnt(Found)>>
<1>1. Found \in [Offset -> Byte]
  BY FoundType
<1>2. ASSUME ums = 2
      PROVE  WriteStep(2, ram_io) = <<O_PHASE_LO, Abs!Pass(Found)[O_PHASE_LO]>>
  <2>1. ram_io = Found[O_STEP_LO] /\ acc_lo = Found[O_PHASE_LO]
    BY <1>2, ReadsFound DEF PassInv, PhaseInv, ReadStep, Reads
  <2>2. QED
    BY <1>1, <2>1, PassBytes DEF WriteStep
<1>3. ASSUME ums = 5
      PROVE  WriteStep(5, ram_io) = <<O_PHASE_HI, Abs!Pass(Found)[O_PHASE_HI]>>
  <2>1. ram_io = Found[O_STEP_HI] /\ acc_hi = Found[O_PHASE_HI]
        /\ carry = (Found[O_PHASE_LO] + Found[O_STEP_LO]) \div BYTE
    BY <1>3, ReadsFound DEF PassInv, PhaseInv, ReadStep, Reads
  <2>2. QED
    BY <1>1, <2>1, PassBytes DEF WriteStep
<1>4. /\ ums = 15 => WriteStep(15, ram_io) = <<O_ENV_STATE, Abs!NextState(Found)>>
      /\ ums = 16 => WriteStep(16, ram_io) = <<O_LEVEL, Abs!NextLevel(Found)>>
      /\ ums = 17 => WriteStep(17, ram_io) = <<O_ENV_CNT, Abs!NextCnt(Found)>>
  BY DEF PassInv, EnvInv, WriteStep
<1>5. QED
  BY <1>2, <1>3, <1>4
-----------------------------------------------------------------------------
LEMMA MicroTick ==
  ASSUME TypeOK, Tick, ~sample_start, ustep < TOTAL_STEPS
  PROVE  /\ ustep' = ustep + 1 /\ sample_cnt' = sample_cnt - 1
         /\ ustep \in 0..TOTAL_STEPS /\ ustep' \in 0..TOTAL_STEPS
  BY Sizes DEF TypeOK, HostTypeOK, Tick

\* The steps of a pass share a channel, and the record it was found with.
LEMMA Within ==
  ASSUME TypeOK, RamInv, MicroStep, Tick, History, ums <= 16
  PROVE  /\ ustep' < TOTAL_STEPS /\ uch' = uch /\ ums' = ums + 1
         /\ settled' = settled /\ Found' = Found
<1>1. ~sample_start /\ ustep < TOTAL_STEPS /\ RamAccess(ums, ram_io)
  BY DEF MicroStep, Micro
<1>2. ums \in 0..(STEPS_PER_CH - 1) /\ ums # STEPS_PER_CH - 1
  BY <1>1, FoundType, Sizes
<1>3. ustep' < TOTAL_STEPS /\ uch' = uch /\ ums' = ums + 1
  BY <1>1, <1>2, MicroTick, StepAdvance
<1>4. settled' = settled
  <2>1. CASE ums \in {0, 1}
    <3>1. mem' = mem
      BY <1>1, <2>1 DEF RamAccess, Reads, Writes
    <3>2. ~InPass(ustep) /\ ~InPass(ustep')
      BY <1>3, <2>1 DEF InPass, ums
    <3>3. QED
      BY <3>1, <3>2 DEF History, RamInv
  <2>2. CASE ums \in 2..16
    <3>1. InPass(ustep')
      BY <1>3, <2>2 DEF InPass, ums
    <3>2. QED
      BY <3>1 DEF History
  <2>3. QED
    BY <1>2, <2>1, <2>2
<1>5. QED
  BY <1>3, <1>4 DEF Found

LEMMA WriteTwice ==
  ASSUME NEW m \in [Chan -> [Offset -> Byte]], NEW c \in Chan,
         NEW q \in [Offset -> Byte], NEW o \in Offset, NEW v
  PROVE  [[m EXCEPT ![c] = q] EXCEPT ![c][o] = v] = [m EXCEPT ![c] = [q EXCEPT ![o] = v]]
  OBVIOUS

\* The effect of a writing microstep.
LEMMA WriteEffect ==
  ASSUME MicroStep, NEW o, NEW v, ums \in Writes, WriteStep(ums, ram_io) = <<o, v>>
  PROVE  mem' = [mem EXCEPT ![uch][o] = v]
  BY DEF MicroStep, Micro, RamAccess, Reads, Writes

LEMMA NoWrite ==
  ASSUME MicroStep, ums \notin Writes
  PROVE  mem' = mem
  BY DEF MicroStep, Micro, RamAccess

LEMMA RamStep ==
  ASSUME TypeOK, PassInv, MicroStep, Tick, History
  PROVE  RamInv'
<1> USE DEF PassInv
<1>1. ustep < TOTAL_STEPS /\ uch \in Chan /\ ums \in Nat /\ Found \in [Offset -> Byte]
      /\ ~sample_start
  BY FoundType DEF MicroStep, Micro
<1>2. CASE ~InPass(ustep')
  BY <1>2 DEF History, RamInv
<1>3. CASE InPass(ustep')
  <2>1. ums' \in 3..17 /\ ustep' < TOTAL_STEPS
    BY <1>3 DEF InPass, ums
  <2>2. ums \in 2..16
    <3>1. ums # STEPS_PER_CH - 1
      BY <1>1, <2>1, MicroTick, StepAdvance
    <3>2. ums' = ums + 1
      BY <1>1, <3>1, MicroTick, StepAdvance
    <3>3. QED
      BY <1>1, <2>1, <3>2
  <2>3. uch' = uch /\ ums' = ums + 1 /\ settled' = settled /\ Found' = Found
    BY <2>2, Within
  <2> SUFFICES mem' = [settled EXCEPT ![uch] = Abs!Torn(Found, WrittenAt(ums + 1))]
    BY <1>3, <2>3 DEF RamInv
  <2>4. settled \in [Chan -> [Offset -> Byte]] /\ settled[uch] = Found
    BY DEF TypeOK, Found
  <2>5. CASE ums = 2
    <3>1. ~InPass(ustep)
      BY <2>5 DEF InPass, ums
    <3>2. mem' = [settled EXCEPT ![uch][O_PHASE_LO] = Abs!Pass(Found)[O_PHASE_LO]]
      BY <1>1, <2>5, <3>1, WritesPass, WriteEffect DEF RamInv, Writes
    <3>3. WrittenAt(ums + 1) = 1
      BY <2>5 DEF WrittenAt
    <3>4. QED
      BY <1>1, <2>4, <3>2, <3>3, TornBytes
  <2>6. CASE ums \in 3..16
    <3>1. mem = [settled EXCEPT ![uch] = Abs!Torn(Found, WrittenAt(ums))]
      BY <1>1, <2>6 DEF RamInv, InPass, ums
    <3>2. \A n \in 0..4 : Abs!Torn(Found, n) \in [Offset -> Byte]
      BY <1>1, TornBytes
    <3>3. CASE ums \in (3..4) \cup (6..14)
      <4>1. mem' = mem
        BY <3>3, NoWrite DEF Writes
      <4>2. WrittenAt(ums + 1) = WrittenAt(ums)
        BY <3>3 DEF WrittenAt
      <4>3. QED
        BY <3>1, <4>1, <4>2
    <3>4. CASE ums = 5
      <4>1. mem' = [mem EXCEPT ![uch][O_PHASE_HI] = Abs!Pass(Found)[O_PHASE_HI]]
        BY <1>1, <3>4, WritesPass, WriteEffect DEF Writes
      <4>2. WrittenAt(ums) = 1 /\ WrittenAt(ums + 1) = 2
        BY <3>4 DEF WrittenAt
      <4>3. QED
        <5>1. mem' = [settled EXCEPT ![uch] = [Abs!Torn(Found, 1) EXCEPT ![O_PHASE_HI] = Abs!Pass(Found)[O_PHASE_HI]]]
          <6>1. Abs!Torn(Found, 1) \in [Offset -> Byte] /\ O_PHASE_HI \in Offset
            BY <3>2, Offsets
          <6>2. mem' = [[settled EXCEPT ![uch] = Abs!Torn(Found, 1)]
                                 EXCEPT ![uch][O_PHASE_HI] = Abs!Pass(Found)[O_PHASE_HI]]
            BY <3>1, <4>1, <4>2
          <6>3. QED
            BY <1>1, <2>4, <6>1, <6>2, WriteTwice
        <5>2. QED
          BY <1>1, <4>2, <5>1, TornBytes
    <3>5. CASE ums = 15
      <4>1. mem' = [mem EXCEPT ![uch][O_ENV_STATE] = Abs!NextState(Found)]
        BY <1>1, <3>5, WritesPass, WriteEffect DEF Writes
      <4>2. WrittenAt(ums) = 2 /\ WrittenAt(ums + 1) = 3
        BY <3>5 DEF WrittenAt
      <4>3. QED
        <5>1. mem' = [settled EXCEPT ![uch] = [Abs!Torn(Found, 2) EXCEPT ![O_ENV_STATE] = Abs!NextState(Found)]]
          <6>1. Abs!Torn(Found, 2) \in [Offset -> Byte] /\ O_ENV_STATE \in Offset
            BY <3>2, Offsets
          <6>2. mem' = [[settled EXCEPT ![uch] = Abs!Torn(Found, 2)]
                                 EXCEPT ![uch][O_ENV_STATE] = Abs!NextState(Found)]
            BY <3>1, <4>1, <4>2
          <6>3. QED
            BY <1>1, <2>4, <6>1, <6>2, WriteTwice
        <5>2. QED
          BY <1>1, <4>2, <5>1, TornBytes
    <3>6. CASE ums = 16
      <4>1. mem' = [mem EXCEPT ![uch][O_LEVEL] = Abs!NextLevel(Found)]
        BY <1>1, <3>6, WritesPass, WriteEffect DEF Writes
      <4>2. WrittenAt(ums) = 3 /\ WrittenAt(ums + 1) = 4
        BY <3>6 DEF WrittenAt
      <4>3. QED
        <5>1. mem' = [settled EXCEPT ![uch] = [Abs!Torn(Found, 3) EXCEPT ![O_LEVEL] = Abs!NextLevel(Found)]]
          <6>1. Abs!Torn(Found, 3) \in [Offset -> Byte] /\ O_LEVEL \in Offset
            BY <3>2, Offsets
          <6>2. mem' = [[settled EXCEPT ![uch] = Abs!Torn(Found, 3)]
                                 EXCEPT ![uch][O_LEVEL] = Abs!NextLevel(Found)]
            BY <3>1, <4>1, <4>2
          <6>3. QED
            BY <1>1, <2>4, <6>1, <6>2, WriteTwice
        <5>2. QED
          BY <1>1, <4>2, <5>1, TornBytes
    <3>7. QED
      BY <1>1, <2>6, <3>3, <3>4, <3>5, <3>6
  <2>7. QED
    BY <2>2, <2>5, <2>6
<1>4. QED
  BY <1>2, <1>3

\* A step that does not end a channel's microprogram goes on with it.
LEMMA Advance ==
  ASSUME TypeOK, MicroStep, Tick, ustep' < TOTAL_STEPS, ums' # 0
  PROVE  uch' = uch /\ ums' = ums + 1 /\ ums \in Nat /\ uch \in Chan
<1>1. ~sample_start /\ ustep < TOTAL_STEPS
  BY DEF MicroStep, Micro
<1>2. QED
  BY <1>1, FoundType, MicroTick, StepAdvance

LEMMA AddrStep ==
  ASSUME TypeOK, PassInv, MicroStep, Tick, History
  PROVE  AddrInv'
<1> SUFFICES ASSUME ustep' < TOTAL_STEPS, ums' > 0, ums' - 1 \in Reads
             PROVE  ram_addr' = <<uch', ReadStep(ums' - 1)>>
  BY DEF AddrInv
<1>1. ums' \in Nat
  BY DEF Reads
<1>2. uch' = uch /\ ums' - 1 = ums /\ ums \in Reads
  BY <1>1, Advance
<1>3. ums \notin Writes
  BY <1>2 DEF Reads, Writes
<1>4. QED
  BY <1>2, <1>3 DEF MicroStep, Micro, RamAccess

LEMMA PhaseStep ==
  ASSUME TypeOK, PassInv, MicroStep, Tick, History
  PROVE  PhaseInv'
<1> USE DEF PassInv
<1>1. ustep < TOTAL_STEPS /\ ums \in Nat /\ Found \in [Offset -> Byte]
      /\ Accumulate(ums, ram_io)
  BY FoundType DEF MicroStep, Micro
<1> SUFFICES ASSUME ustep' < TOTAL_STEPS, ums' \in 2..10
             PROVE  /\ ums' = 2 => acc_lo' = Found'[O_PHASE_LO]
                    /\ ums' \in 3..10 => acc_lo' = Abs!Pass(Found')[O_PHASE_LO]
                    /\ ums' \in 3..5 =>
                         carry' = (Found'[O_PHASE_LO] + Found'[O_STEP_LO]) \div BYTE
                    /\ ums' = 5 => acc_hi' = Found'[O_PHASE_HI]
                    /\ ums' \in 6..10 => acc_hi' = Abs!Pass(Found')[O_PHASE_HI]
  BY DEF PhaseInv
<1>2. ums' = ums + 1
  BY Advance
<1>3. Found' = Found
  BY <1>1, <1>2, Within
<1>4. ASSUME ums = 1 PROVE acc_lo' = Found[O_PHASE_LO]
  <2>1. ram_io = Found[O_PHASE_LO]
    BY <1>1, <1>4, ReadsFound DEF Reads, ReadStep
  <2>2. QED
    BY <1>1, <1>4, <2>1 DEF Accumulate
<1>5. ASSUME ums = 2
      PROVE  /\ acc_lo' = Abs!Pass(Found)[O_PHASE_LO]
             /\ carry' = (Found[O_PHASE_LO] + Found[O_STEP_LO]) \div BYTE
  <2>1. ram_io = Found[O_STEP_LO]
    BY <1>1, <1>5, ReadsFound DEF Reads, ReadStep
  <2>2. acc_lo = Found[O_PHASE_LO]
    BY <1>1, <1>5 DEF PhaseInv
  <2>3. QED
    BY <1>1, <1>5, <2>1, <2>2, PassBytes DEF Accumulate
<1>6. ASSUME ums \in 3..9 PROVE acc_lo' = Abs!Pass(Found)[O_PHASE_LO]
  BY <1>1, <1>6 DEF Accumulate, PhaseInv
<1>7. ASSUME ums \in 3..4
      PROVE  carry' = (Found[O_PHASE_LO] + Found[O_STEP_LO]) \div BYTE
  BY <1>1, <1>7 DEF Accumulate, PhaseInv
<1>8. ASSUME ums = 4 PROVE acc_hi' = Found[O_PHASE_HI]
  <2>1. ram_io = Found[O_PHASE_HI]
    BY <1>1, <1>8, ReadsFound DEF Reads, ReadStep
  <2>2. QED
    BY <1>1, <1>8, <2>1 DEF Accumulate
<1>9. ASSUME ums = 5 PROVE acc_hi' = Abs!Pass(Found)[O_PHASE_HI]
  <2>1. ram_io = Found[O_STEP_HI]
    BY <1>1, <1>9, ReadsFound DEF Reads, ReadStep
  <2>2. acc_hi = Found[O_PHASE_HI]
        /\ carry = (Found[O_PHASE_LO] + Found[O_STEP_LO]) \div BYTE
    BY <1>1, <1>9 DEF PhaseInv
  <2>3. QED
    BY <1>1, <1>9, <2>1, <2>2, PassBytes DEF Accumulate
<1>10. ASSUME ums \in 6..9 PROVE acc_hi' = Abs!Pass(Found)[O_PHASE_HI]
  BY <1>1, <1>10 DEF Accumulate, PhaseInv
<1>11. QED
  BY <1>1, <1>2, <1>3, <1>4, <1>5, <1>6, <1>7, <1>8, <1>9, <1>10

\* Step 14 does to the latched level, state and counter what the pass does.
LEMMA EnvelopeStep ==
  ASSUME TypeOK, PassInv, MicroStep, ums = 14
  PROVE  /\ level_r' = Abs!NextLevel(Found)
         /\ env_state_r' = Abs!NextState(Found)
         /\ env_cnt_r' = Abs!NextCnt(Found)
<1> USE DEF PassInv
<1>1. ustep < TOTAL_STEPS /\ Found \in [Offset -> Byte] /\ Envelope(14)
  BY FoundType DEF MicroStep, Micro
<1>2. ram_io = Found[O_ENV_RATE]
  BY <1>1, ReadsFound DEF Reads, ReadStep
<1>3. /\ level_r = Abs!EnvLevel(Found) /\ env_state_r = Abs!EnvState(Found)
      /\ env_cnt_r = Found[O_ENV_CNT]
  BY <1>1 DEF EnvInv
<1>4. /\ Found[O_ENV_CNT] \in Nat /\ Found[O_ENV_RATE] \in Nat
      /\ Found[O_ENV_CNT] < BYTE /\ Found[O_ENV_RATE] < BYTE
      /\ Abs!EnvLevel(Found) \in 0..LEVEL_MAX
  BY <1>1, PassBytes, Offsets, Sizes DEF Byte
<1>5. EnvFires(14) <=> Abs!EnvFires(Found)
  BY <1>2, <1>3, SameNames DEF EnvFires, Abs!EnvFires
<1>6. level_r' = Abs!NextLevel(Found)
  BY <1>1, <1>3, <1>4, <1>5, SameNames, Offsets, Sizes DEF Envelope, Abs!NextLevel
<1>7. env_state_r' = Abs!NextState(Found)
  <2>1. ATTACK # RELEASE
    BY Offsets
  <2>2. QED
    BY <1>1, <1>3, <1>5, <2>1, SameNames DEF Envelope, Abs!NextState
<1>8. env_cnt_r' = Abs!NextCnt(Found)
  <2>1. CASE EnvFires(14)
    <3>1. Abs!EnvState(Found) # Abs!OFF
      BY <1>3, <2>1, SameNames DEF EnvFires
    <3>2. QED
      BY <1>1, <1>5, <2>1, <3>1 DEF Envelope, Abs!NextCnt
  <2>2. CASE ~EnvFires(14) /\ env_state_r = OFF
    BY <1>1, <1>3, <1>5, <2>2, SameNames DEF Envelope, Abs!NextCnt
  <2>3. CASE ~EnvFires(14) /\ env_state_r # OFF
    <3>1. Found[O_ENV_CNT] < Found[O_ENV_RATE]
      BY <1>2, <1>3, <1>4, <2>3 DEF EnvFires
    <3>2. (Found[O_ENV_CNT] + 1) % BYTE = Found[O_ENV_CNT] + 1
      BY <1>4, <3>1, Sizes
    <3>3. env_cnt_r' = (Found[O_ENV_CNT] + 1) % BYTE
      BY <1>1, <1>3, <2>3 DEF Envelope
    <3>4. Abs!NextCnt(Found) = Found[O_ENV_CNT] + 1
      BY <1>3, <1>5, <2>3, SameNames DEF Abs!NextCnt
    <3>5. QED
      BY <3>2, <3>3, <3>4
  <2>4. QED
    BY <2>1, <2>2, <2>3
<1>9. QED
  BY <1>6, <1>7, <1>8

LEMMA EnvStep ==
  ASSUME TypeOK, PassInv, MicroStep, Tick, History
  PROVE  EnvInv'
<1> USE DEF PassInv
<1>1. ustep < TOTAL_STEPS /\ ums \in Nat /\ Found \in [Offset -> Byte]
      /\ Envelope(ums)
  BY FoundType DEF MicroStep, Micro
<1> SUFFICES ASSUME ustep' < TOTAL_STEPS, ums' \in 8..17
             PROVE  /\ ums' \in 8..14 => level_r' = Abs!EnvLevel(Found')
                    /\ ums' \in 11..14 => env_state_r' = Abs!EnvState(Found')
                    /\ ums' = 14 => env_cnt_r' = Found'[O_ENV_CNT]
                    /\ ums' \in 15..17 => /\ level_r' = Abs!NextLevel(Found')
                                          /\ env_state_r' = Abs!NextState(Found')
                                          /\ env_cnt_r' = Abs!NextCnt(Found')
  BY DEF EnvInv
<1>2. ums' = ums + 1
  BY Advance
<1>3. Found' = Found
  BY <1>1, <1>2, Within
<1>4. ASSUME ums = 7 PROVE level_r' = Abs!EnvLevel(Found)
  <2>1. ram_io = Found[O_LEVEL]
    BY <1>1, <1>4, ReadsFound DEF Reads, ReadStep
  <2>2. QED
    BY <1>1, <1>4, <2>1, SameNames DEF Envelope, EnvFires, Abs!EnvLevel
<1>5. ASSUME ums \in 8..13 PROVE level_r' = Abs!EnvLevel(Found)
  BY <1>1, <1>5 DEF Envelope, EnvFires, EnvInv
<1>6. ASSUME ums = 10 PROVE env_state_r' = Abs!EnvState(Found)
  <2>1. ram_io = Found[O_ENV_STATE]
    BY <1>1, <1>6, ReadsFound DEF Reads, ReadStep
  <2>2. QED
    BY <1>1, <1>6, <2>1, SameNames DEF Envelope, EnvFires, Abs!EnvState
<1>7. ASSUME ums \in 11..13 PROVE env_state_r' = Abs!EnvState(Found)
  BY <1>1, <1>7 DEF Envelope, EnvFires, EnvInv
<1>8. ASSUME ums = 13 PROVE env_cnt_r' = Found[O_ENV_CNT]
  <2>1. ram_io = Found[O_ENV_CNT]
    BY <1>1, <1>8, ReadsFound DEF Reads, ReadStep
  <2>2. QED
    BY <1>1, <1>8, <2>1 DEF Envelope, EnvFires
<1>9. ASSUME ums \in 14..16
      PROVE  /\ level_r' = Abs!NextLevel(Found)
             /\ env_state_r' = Abs!NextState(Found)
             /\ env_cnt_r' = Abs!NextCnt(Found)
  <2>1. CASE ums = 14
    BY <2>1, EnvelopeStep
  <2>2. CASE ums \in 15..16
    BY <1>1, <2>2 DEF Envelope, EnvFires, EnvInv
  <2>3. QED
    BY <1>9, <2>1, <2>2
<1>10. QED
  BY <1>1, <1>2, <1>3, <1>4, <1>5, <1>6, <1>7, <1>8, <1>9

LEMMA ToneStep ==
  ASSUME TypeOK, PassInv, MicroStep, Tick, History
  PROVE  ToneInv'
<1> USE DEF PassInv
<1>1. ustep < TOTAL_STEPS /\ ums \in Nat /\ Found \in [Offset -> Byte] /\ Mixer(ums)
  BY FoundType DEF MicroStep, Micro
<1> SUFFICES ASSUME ustep' < TOTAL_STEPS, ums' \in 9..11
             PROVE  /\ ums' \in 9..10 => vol_r' = Found'[O_VOL] % 32
                    /\ ums' = 10 => wave_idx_r' = Found'[O_WAVE_IDX] % 8
                    /\ ums' = 11 /\ Abs!EnvState(Found') # OFF =>
                         rom_addr' = <<Found'[O_WAVE_IDX] % 8, Abs!EnvLevel(Found'),
                                       Found'[O_VOL] % 32,
                                       Index(Abs!Pass(Found')[O_PHASE_LO],
                                             Abs!Pass(Found')[O_PHASE_HI])>>
  BY DEF ToneInv
<1>2. ums' = ums + 1
  BY Advance
<1>3. Found' = Found
  BY <1>1, <1>2, Within
<1>4. ASSUME ums = 8 PROVE vol_r' = Found[O_VOL] % 32
  <2>1. ram_io = Found[O_VOL]
    BY <1>1, <1>4, ReadsFound DEF Reads, ReadStep
  <2>2. QED
    BY <1>1, <1>4, <2>1 DEF Mixer
<1>5. ASSUME ums = 9
      PROVE  vol_r' = Found[O_VOL] % 32 /\ wave_idx_r' = Found[O_WAVE_IDX] % 8
  <2>1. ram_io = Found[O_WAVE_IDX]
    BY <1>1, <1>5, ReadsFound DEF Reads, ReadStep
  <2>2. QED
    BY <1>1, <1>5, <2>1 DEF Mixer, ToneInv
<1>6. ASSUME ums = 10, Abs!EnvState(Found) # OFF
      PROVE  rom_addr' = <<Found[O_WAVE_IDX] % 8, Abs!EnvLevel(Found), Found[O_VOL] % 32,
                           Index(Abs!Pass(Found)[O_PHASE_LO],
                                 Abs!Pass(Found)[O_PHASE_HI])>>
  <2>1. ram_io = Found[O_ENV_STATE]
    BY <1>1, <1>6, ReadsFound DEF Reads, ReadStep
  <2>2. rom_addr' = <<wave_idx_r, level_r, vol_r, Index(acc_lo, acc_hi)>>
    BY <1>1, <1>6, <2>1, SameNames DEF Mixer, Abs!EnvState
  <2>3. QED
    BY <1>1, <1>6, <2>2 DEF ToneInv, PhaseInv, EnvInv
<1>7. QED
  BY <1>1, <1>2, <1>3, <1>4, <1>5, <1>6
-----------------------------------------------------------------------------
LEMMA RomByte == ASSUME TypeOK PROVE rom_data \in Byte
  BY MicroAssumption DEF TypeOK, rom_data

\* Step 11 mixes the sample that the channel's record asks for.
LEMMA SampleFound ==
  ASSUME TypeOK, PassInv, ustep < TOTAL_STEPS, ums = 11
  PROVE  Sample(mem[uch]) = IF env_state_r # OFF THEN Signed(rom_data) ELSE 0
<1> USE DEF PassInv
<1> DEFINE r == Abs!Torn(Found, 2)
<1>1. uch \in Chan /\ Found \in [Offset -> Byte]
  BY FoundType
<1>2. mem[uch] = r
  <2>1. InPass(ustep) /\ WrittenAt(ums) = 2
    BY DEF InPass, ums, WrittenAt
  <2>2. QED
    BY <1>1, <2>1 DEF RamInv, TypeOK
<1>3. /\ r[O_PHASE_LO] = Abs!Pass(Found)[O_PHASE_LO]
      /\ r[O_PHASE_HI] = Abs!Pass(Found)[O_PHASE_HI]
      /\ r[O_ENV_STATE] = Found[O_ENV_STATE] /\ r[O_LEVEL] = Found[O_LEVEL]
      /\ r[O_VOL] = Found[O_VOL] /\ r[O_WAVE_IDX] = Found[O_WAVE_IDX]
  <2>1. r = [[Found EXCEPT ![O_PHASE_LO] = Abs!Pass(Found)[O_PHASE_LO]]
                    EXCEPT ![O_PHASE_HI] = Abs!Pass(Found)[O_PHASE_HI]]
    BY <1>1, TornBytes
  <2>2. QED
    BY <1>1, <2>1, Offsets
<1> HIDE DEF r
<1>4. env_state_r = Found[O_ENV_STATE] % 8
  BY SameNames DEF EnvInv, Abs!EnvState
<1>5. CASE env_state_r = OFF
  BY <1>2, <1>3, <1>4, <1>5 DEF Sample
<1>6. CASE env_state_r # OFF
  <2>1. rom_addr = <<Found[O_WAVE_IDX] % 8, Found[O_LEVEL] % (LEVEL_MAX + 1),
                     Found[O_VOL] % 32, Index(r[O_PHASE_LO], r[O_PHASE_HI])>>
    BY <1>3, <1>4, <1>6, SameNames DEF ToneInv, Abs!EnvState, Abs!EnvLevel
  <2>2. rom_data = Rom(Found[O_WAVE_IDX] % 8, Found[O_LEVEL] % (LEVEL_MAX + 1),
                       Found[O_VOL] % 32, Index(r[O_PHASE_LO], r[O_PHASE_HI]))
    BY <2>1 DEF rom_data
  <2>3. QED
    BY <1>2, <1>3, <1>4, <1>6, <2>2 DEF Sample
<1>7. QED
  BY <1>5, <1>6

\* The clocks of a microprogram that mix nothing.
LEMMA MixedAdvance ==
  ASSUME TypeOK, MicroStep, Tick
  PROVE  /\ uch \in Nat /\ uch < CHANS /\ Mixed \in 0..CHANS
         /\ ustep' < TOTAL_STEPS => Mixed' = IF ums = 11 THEN uch + 1 ELSE Mixed
         /\ ums = 11 => Mixed = uch /\ ustep' < TOTAL_STEPS
         /\ ustep' = TOTAL_STEPS => Mixed = CHANS /\ ums # 11
         /\ ustep' < TOTAL_STEPS <=> ustep # TOTAL_STEPS - 1
         /\ ustep' \in 0..TOTAL_STEPS
<1>1. ~sample_start /\ ustep < TOTAL_STEPS
  BY DEF MicroStep, Micro
<1>2. uch \in Nat /\ uch < CHANS /\ ums \in 0..(STEPS_PER_CH - 1)
  BY <1>1, FoundType, Sizes DEF Chan
<1>3. ustep' = ustep + 1 /\ ustep \in 0..TOTAL_STEPS /\ ustep' \in 0..TOTAL_STEPS
  BY <1>1, MicroTick
<1>4. Mixed = IF ums > 11 THEN uch + 1 ELSE uch
  BY <1>1 DEF Mixed
<1>5. ustep' < TOTAL_STEPS => Mixed' = IF ums' > 11 THEN uch' + 1 ELSE uch'
  BY DEF Mixed
<1>6. CASE ums # STEPS_PER_CH - 1
  <2>1. uch' = uch /\ ums' = ums + 1 /\ ustep' < TOTAL_STEPS
    BY <1>1, <1>3, <1>6, StepAdvance
  <2>2. QED
    BY <1>2, <1>3, <1>4, <1>5, <2>1, Sizes
<1>7. CASE ums = STEPS_PER_CH - 1
  <2>1. uch' = uch + 1 /\ ums' = 0 /\ (ustep' = TOTAL_STEPS => uch' = CHANS)
    BY <1>1, <1>3, <1>7, StepAdvance
  <2>2. ums > 11
    BY <1>7, Sizes
  <2>3. QED
    BY <1>2, <1>3, <1>4, <1>5, <2>1, <2>2, Sizes
<1>8. QED
  BY <1>6, <1>7

\* What a clock of the microprogram adds to the mix.
LEMMA MixEffect ==
  ASSUME TypeOK, MicroStep, Tick
  PROVE  /\ ustep' < TOTAL_STEPS =>
              mix_sum' = IF ums = 11 /\ env_state_r # OFF THEN mix_sum + rom_data
                         ELSE mix_sum
         /\ ustep' = TOTAL_STEPS =>
              /\ dac_out' = mix_sum % BYTE
              /\ mix_sum' \in {mix_sum, BYTE \div 2 - 1}
  BY MixedAdvance DEF MicroStep, Micro, Mixer

LEMMA BoundStep ==
  ASSUME TypeOK, BoundInv, MicroStep, Tick
  PROVE  BoundInv' /\ mix_sum' \in 0..(CHANS * BYTE)
<1>1. mix_sum \in 0..(CHANS * BYTE) /\ rom_data \in Nat /\ rom_data <= BYTE
      /\ ustep < TOTAL_STEPS /\ mix_sum <= BYTE * Mixed
  BY RomByte, Sizes DEF TypeOK, Byte, BoundInv, MicroStep, Micro
<1>2. \A n \in 0..CHANS : BYTE * n \in Nat /\ BYTE * n <= CHANS * BYTE
  <2>1. \A n, k \in Nat : BYTE * (n + k) = BYTE * n + BYTE * k
    BY Sizes
  <2>2. SUFFICES ASSUME NEW n \in 0..CHANS
                 PROVE  BYTE * n \in Nat /\ BYTE * n <= CHANS * BYTE
    OBVIOUS
  <2>3. CHANS - n \in Nat /\ n \in Nat /\ n + (CHANS - n) = CHANS
    BY Sizes
  <2>4. BYTE * CHANS = BYTE * n + BYTE * (CHANS - n) /\ BYTE * (CHANS - n) \in Nat
    BY <2>1, <2>3, Sizes
  <2>5. QED
    BY <2>3, <2>4, Sizes
<1>3. CASE ustep' < TOTAL_STEPS /\ ums # 11
  <2>1. mix_sum' = mix_sum /\ Mixed' = Mixed
    BY <1>3, MixedAdvance, MixEffect
  <2>2. QED
    BY <1>1, <2>1 DEF BoundInv
<1>4. CASE ums = 11
  <2>1. Mixed = uch /\ Mixed' = uch + 1 /\ uch + 1 \in 0..CHANS /\ uch \in 0..CHANS
    BY <1>4, MixedAdvance, Sizes
  <2>2. mix_sum' \in {mix_sum, mix_sum + rom_data}
    BY <1>4, MixedAdvance, MixEffect
  <2>3. BYTE * (uch + 1) = BYTE * uch + BYTE
    BY <2>1, Sizes
  <2>4. mix_sum' \in Nat /\ mix_sum' <= BYTE * Mixed'
    BY <1>1, <1>2, <2>1, <2>2, <2>3, Sizes
  <2>5. QED
    BY <1>2, <2>1, <2>4, Sizes DEF BoundInv
<1>5. CASE ustep' = TOTAL_STEPS
  <2>1. mix_sum' \in {mix_sum, BYTE \div 2 - 1}
    BY <1>5, MixEffect
  <2>2. BYTE \div 2 - 1 \in Nat /\ BYTE \div 2 - 1 <= BYTE * 1
    BY Sizes
  <2>3. BYTE \div 2 - 1 \in 0..(CHANS * BYTE)
    BY <1>2, <2>2, Sizes
  <2>4. QED
    BY <1>1, <1>5, <2>1, <2>3, Sizes DEF BoundInv
<1>6. QED
  BY <1>3, <1>4, <1>5, MixedAdvance, Sizes

LEMMA MixStep ==
  ASSUME TypeOK, PassInv, MixInv, MicroStep, Tick, History
  PROVE  MixInv'
<1>1. /\ mix_sum \in Nat /\ rom_data \in Nat /\ rom_data < BYTE
      /\ sums \in [0..CHANS -> Int] /\ ustep < TOTAL_STEPS /\ ~sample_start
  BY RomByte, Sizes DEF TypeOK, Byte, MicroStep, Micro
<1>2. PICK n \in 0..Mixed : mix_sum = sums[Mixed] + BYTE * n
  BY <1>1 DEF MixInv
<1>3. CASE ustep' < TOTAL_STEPS /\ ums # 11
  <2>1. mix_sum' = mix_sum /\ Mixed' = Mixed /\ sums' = sums
    BY <1>3, MixedAdvance, MixEffect DEF History
  <2>2. ustep' # TOTAL_STEPS
    BY <1>3, Sizes
  <2>3. mix_sum' = sums'[Mixed'] + BYTE * n /\ n \in 0..Mixed'
    BY <1>2, <2>1
  <2>4. QED
    BY <2>1, <2>2, <2>3 DEF MixInv
<1>4. CASE ums = 11
  <2>1. /\ uch \in 0..CHANS /\ uch + 1 \in 0..CHANS /\ uch + 1 # 0 /\ uch + 1 # uch
        /\ Mixed = uch /\ Mixed' = uch + 1 /\ ustep' < TOTAL_STEPS /\ ustep' # TOTAL_STEPS
    BY <1>4, MixedAdvance, Sizes
  <2>2. sums' = [sums EXCEPT ![uch + 1] = sums[uch] + Sample(mem[uch])]
    BY <1>1, <1>4 DEF History
  <2>3. /\ sums'[0] = 0 /\ sums[uch] \in Int
        /\ sums'[Mixed'] = sums[uch] + Sample(mem[uch])
    BY <1>1, <2>1, <2>2, Sizes DEF MixInv
  <2>4. Sample(mem[uch]) = IF env_state_r # OFF THEN Signed(rom_data) ELSE 0
    BY <1>1, <1>4, SampleFound
  <2>5. mix_sum' = IF env_state_r # OFF THEN mix_sum + rom_data ELSE mix_sum
    BY <1>4, <2>1, MixEffect
  <2>6. \E k \in 0..Mixed' : mix_sum' = sums'[Mixed'] + BYTE * k
    <3>1. n \in Nat /\ n \in 0..Mixed' /\ n + 1 \in 0..Mixed'
          /\ BYTE * (n + 1) = BYTE * n + BYTE
      BY <1>2, <2>1, Sizes
    <3>2. mix_sum = sums[uch] + BYTE * n /\ BYTE * n \in Nat
      BY <1>2, <2>1, <3>1, Sizes
    <3>3. CASE env_state_r # OFF /\ rom_data >= BYTE \div 2
      <4>1. Sample(mem[uch]) = rom_data - BYTE
        BY <2>4, <3>3 DEF Signed
      <4>2. mix_sum' = sums'[Mixed'] + BYTE * (n + 1)
        BY <1>1, <2>3, <2>5, <3>1, <3>2, <3>3, <4>1, Sizes
      <4>3. QED
        BY <3>1, <4>2
    <3>4. CASE env_state_r # OFF /\ ~(rom_data >= BYTE \div 2)
      <4>1. Sample(mem[uch]) = rom_data
        BY <2>4, <3>4 DEF Signed
      <4>2. mix_sum' = sums'[Mixed'] + BYTE * n
        BY <1>1, <2>3, <2>5, <3>1, <3>2, <3>4, <4>1, Sizes
      <4>3. QED
        BY <3>1, <4>2
    <3>5. CASE env_state_r = OFF
      <4>1. mix_sum' = sums'[Mixed'] + BYTE * n
        BY <1>1, <2>3, <2>4, <2>5, <3>1, <3>2, <3>5, Sizes
      <4>2. QED
        BY <3>1, <4>1
    <3>6. QED
      BY <3>3, <3>4, <3>5
  <2>7. QED
    BY <2>1, <2>3, <2>6 DEF MixInv
<1>5. CASE ustep' = TOTAL_STEPS
  <2>1. /\ Mixed = CHANS /\ sums' = sums /\ dac_out' = mix_sum % BYTE
        /\ ~(ustep' < TOTAL_STEPS)
    BY <1>5, MixedAdvance, MixEffect, Sizes DEF History
  <2>2. dac_out' = (sums'[CHANS] + BYTE * n) % BYTE /\ n \in 0..CHANS
    BY <1>2, <2>1
  <2>3. QED
    BY <2>1, <2>2 DEF MixInv
<1>6. QED
  BY <1>3, <1>4, <1>5, MixedAdvance, Sizes
-----------------------------------------------------------------------------
LEMMA RamByte == ASSUME TypeOK PROVE ram_io \in Byte /\ ram_io \in Nat
  BY Sizes DEF TypeOK, ram_io, Byte

LEMMA Residues ==
  ASSUME NEW x \in Byte
  PROVE  /\ x % 8 \in 0..7 /\ x % 32 \in 0..31
         /\ x % (LEVEL_MAX + 1) \in 0..LEVEL_MAX
  BY Sizes DEF Byte

LEMMA SampleInt ==
  ASSUME NEW r \in [Offset -> Byte]
  PROVE  Sample(r) \in Int
<1>1. \A o \in Offset : r[o] \in Byte
  OBVIOUS
<1>2. Index(r[O_PHASE_LO], r[O_PHASE_HI]) \in Byte
  BY <1>1, Offsets, IndexByte
<1>3. Rom(r[O_WAVE_IDX] % 8, r[O_LEVEL] % (LEVEL_MAX + 1), r[O_VOL] % 32,
          Index(r[O_PHASE_LO], r[O_PHASE_HI])) \in Byte
  BY <1>1, <1>2, Residues, Offsets, MicroAssumption
<1>4. \A x \in Byte : Signed(x) \in Int
  BY Sizes DEF Signed, Byte
<1>5. QED
  BY <1>3, <1>4 DEF Sample

\* A microstep addresses the record of its channel and writes bytes to it.
LEMMA RamType ==
  ASSUME TypeOK, MicroStep
  PROVE  mem' \in [Chan -> [Offset -> Byte]] /\ ram_addr' \in Chan \X Offset
<1>1. uch \in Chan /\ ums \in Nat /\ RamAccess(ums, ram_io)
  BY FoundType DEF MicroStep, Micro
<1>2. mem \in [Chan -> [Offset -> Byte]] /\ ram_addr \in Chan \X Offset
  BY DEF TypeOK
<1>3. CASE ums \in Reads
  <2>1. ReadStep(ums) \in Offset
    BY <1>3, Offsets DEF Reads, ReadStep
  <2>2. QED
    BY <1>1, <1>2, <1>3, <2>1 DEF RamAccess, Reads, Writes
<1>4. CASE ums \in Writes
  <2> DEFINE o == WriteStep(ums, ram_io)[1]
             v == WriteStep(ums, ram_io)[2]
  <2>1. env_state_r \in Byte /\ level_r \in Byte /\ env_cnt_r \in Byte
        /\ rom_data \in Byte /\ 0 \in Byte
    <3>1. env_state_r \in 0..7 /\ level_r \in 0..LEVEL_MAX /\ env_cnt_r \in Byte
      BY DEF TypeOK
    <3>2. QED
      BY <3>1, RomByte, Sizes DEF Byte
  <2>2. (acc_lo + ram_io) % BYTE \in Byte /\ (acc_hi + ram_io + carry) % BYTE \in Byte
    <3>1. acc_lo \in Byte /\ acc_hi \in Byte /\ carry \in {0, 1} /\ ram_io \in Byte
      BY RamByte DEF TypeOK
    <3>2. acc_lo + ram_io + 0 = acc_lo + ram_io
      BY <3>1, Sizes DEF Byte
    <3>3. QED
      BY <3>1, <3>2, ByteSum
  <2>3. o \in Offset /\ v \in Byte
    BY <1>4, <2>1, <2>2, Offsets DEF Writes, WriteStep
  <2> HIDE DEF o, v
  <2>4. mem' = [mem EXCEPT ![uch][o] = v] /\ ram_addr' = <<uch, o>>
    BY <1>1, <1>4 DEF RamAccess, Reads, Writes, o, v
  <2>5. QED
    BY <1>1, <1>2, <2>3, <2>4
<1>5. CASE ums \notin Reads \cup Writes
  BY <1>1, <1>2, <1>5 DEF RamAccess
<1>6. QED
  BY <1>3, <1>4, <1>5

\* A microstep keeps the widths of the working registers.
LEMMA RegisterType ==
  ASSUME TypeOK, MicroStep
  PROVE  /\ acc_lo' \in Byte /\ acc_hi' \in Byte /\ carry' \in {0, 1}
         /\ level_r' \in 0..LEVEL_MAX /\ env_state_r' \in 0..7 /\ env_cnt_r' \in Byte
         /\ vol_r' \in 0..31 /\ wave_idx_r' \in 0..7
         /\ rom_addr' \in (0..7) \X (0..LEVEL_MAX) \X (0..31) \X Byte
         /\ dac_out' \in Byte /\ ch_active' \in [Chan -> BOOLEAN]
<1>1. /\ uch \in Chan /\ ums \in Nat /\ ram_io \in Byte
      /\ Accumulate(ums, ram_io) /\ Envelope(ums) /\ Mixer(ums)
  BY FoundType, RamByte DEF MicroStep, Micro
<1>2. acc_lo' \in Byte /\ acc_hi' \in Byte /\ carry' \in {0, 1}
  <2>1. acc_lo \in Byte /\ acc_hi \in Byte /\ carry \in {0, 1}
    BY DEF TypeOK
  <2>2. acc_lo + ram_io + 0 = acc_lo + ram_io
    BY <1>1, <2>1, Sizes DEF Byte
  <2>3. (acc_lo + ram_io) % BYTE \in Byte /\ (acc_lo + ram_io) \div BYTE \in {0, 1}
    BY <1>1, <2>1, <2>2, ByteSum
  <2>4. /\ (acc_hi + ram_io + carry) % BYTE \in Byte
        /\ (acc_hi + ram_io + carry) \div BYTE \in {0, 1}
    BY <1>1, <2>1, ByteSum
  <2>5. QED
    BY <1>1, <2>1, <2>3, <2>4 DEF Accumulate
<1>3. level_r' \in 0..LEVEL_MAX
  <2>1. EnvFires(ums) => ums = 14
    BY DEF EnvFires
  <2>2. level_r \in 0..LEVEL_MAX /\ (ram_io % (LEVEL_MAX + 1)) \in 0..LEVEL_MAX
    BY <1>1, Residues DEF TypeOK
  <2>3. QED
    BY <1>1, <2>1, <2>2, Sizes DEF Envelope
<1>4. env_state_r' \in 0..7
  <2>1. EnvFires(ums) => ums = 14
    BY DEF EnvFires
  <2>2. env_state_r \in 0..7 /\ ram_io % 8 \in 0..7 /\ SUSTAIN \in 0..7 /\ OFF \in 0..7
        /\ ATTACK # RELEASE
    BY <1>1, Residues, Offsets DEF TypeOK
  <2>3. QED
    BY <1>1, <2>1, <2>2 DEF Envelope
<1>5. env_cnt_r' \in Byte
  <2>1. env_cnt_r \in Byte /\ 0 \in Byte /\ (env_cnt_r + 1) % BYTE \in Byte
    BY Sizes DEF TypeOK, Byte
  <2>2. EnvFires(ums) => ums = 14
    BY DEF EnvFires
  <2>3. QED
    BY <1>1, <2>1, <2>2 DEF Envelope
<1>6. vol_r' \in 0..31 /\ wave_idx_r' \in 0..7
  BY <1>1, Residues DEF TypeOK, Mixer
<1>7. rom_addr' \in (0..7) \X (0..LEVEL_MAX) \X (0..31) \X Byte
  <2>1. Index(acc_lo, acc_hi) \in Byte
    BY IndexByte DEF TypeOK
  <2>2. <<wave_idx_r, level_r, vol_r, Index(acc_lo, acc_hi)>>
          \in (0..7) \X (0..LEVEL_MAX) \X (0..31) \X Byte
    BY <2>1 DEF TypeOK
  <2>3. rom_addr \in (0..7) \X (0..LEVEL_MAX) \X (0..31) \X Byte
    BY DEF TypeOK
  <2>4. QED
    BY <1>1, <2>2, <2>3 DEF Mixer
<1>8. dac_out' \in Byte
  <2>1. mix_sum % BYTE \in Byte /\ dac_out \in Byte
    BY Sizes DEF TypeOK, Byte
  <2>2. QED
    BY <1>1, <2>1 DEF Mixer
<1>9. ch_active' \in [Chan -> BOOLEAN]
  <2>1. ch_active \in [Chan -> BOOLEAN]
    BY DEF TypeOK
  <2>2. [ch_active EXCEPT ![uch] = env_state_r # OFF] \in [Chan -> BOOLEAN]
    BY <1>1, <2>1
  <2>3. QED
    BY <1>1, <2>1, <2>2 DEF Mixer
<1>10. QED
  BY <1>2, <1>3, <1>4, <1>5, <1>6, <1>7, <1>8, <1>9

LEMMA HistoryType ==
  ASSUME TypeOK, History, mem' \in [Chan -> [Offset -> Byte]]
  PROVE  settled' \in [Chan -> [Offset -> Byte]] /\ sums' \in [0..CHANS -> Int]
<1>1. settled' \in [Chan -> [Offset -> Byte]]
  BY DEF History, TypeOK
<1>2. sums \in [0..CHANS -> Int]
  BY DEF TypeOK
<1>3. CASE ~sample_start /\ ustep < TOTAL_STEPS /\ ums = 11
  <2>1. uch \in Chan /\ uch \in 0..CHANS
    BY <1>3, FoundType, Sizes DEF Chan
  <2>2. Sample(mem[uch]) \in Int
    BY <2>1, SampleInt DEF TypeOK
  <2>3. sums[uch] + Sample(mem[uch]) \in Int
    BY <1>2, <2>1, <2>2
  <2>4. QED
    BY <1>1, <1>2, <1>3, <2>3 DEF History
<1>4. CASE ~(~sample_start /\ ustep < TOTAL_STEPS /\ ums = 11)
  BY <1>1, <1>2, <1>4 DEF History
<1>5. QED
  BY <1>3, <1>4
-----------------------------------------------------------------------------
LEMMA ParamFacts ==
  ASSUME NEW reg \in R_PARAM
  PROVE  /\ ParamOf(reg) \in HostParam
         /\ \A v \in Byte : Trim(reg, v) \in Byte
<1>1. ParamOf(reg) \in HostParam
  BY DEF R_PARAM, ParamOf, HostParam, O_WAVE_IDX, O_VOL, O_ENV_RATE, O_STEP_LO,
         O_STEP_HI
<1>2. ASSUME NEW v \in Byte PROVE Trim(reg, v) \in Byte
  BY Sizes DEF Trim, Byte
<1>3. QED
  BY <1>1, <1>2

LEMMA TrimFacts ==
  ASSUME NEW reg \in Reg, NEW v \in Input(reg)
  PROVE  /\ reg # NoReg => v \in Byte
         /\ reg \in R_PARAM => /\ ParamOf(reg) \in HostParam
                               /\ Trim(reg, v) \in Byte
<1>1. reg # NoReg => v \in Byte
  BY HostAssumption DEF Input, Reg, NoReg, Byte
<1>2. reg \in R_PARAM => reg # NoReg
  BY DEF R_PARAM, NoReg
<1>3. QED
  BY <1>1, <1>2, ParamFacts

\* The host half of a clock keeps its types.
LEMMA DataWriteType ==
  ASSUME HostTypeOK, Tick, NEW reg \in Reg, NEW v \in Input(reg),
         DataWrite(reg, v)
  PROVE  HostTypeOK'
<1> USE DEF HostTypeOK
<1>1. (sample_cnt \in 0..(SAMPLE_DIV - 1))' /\ (ustep \in 0..TOTAL_STEPS)'
  BY Sizes DEF Tick, sample_start
<1>2. (host_ch \in Chan)'
  <2>1. CASE reg = R_CTRL
    <3>1. v \in Byte
      BY <2>1, TrimFacts DEF R_CTRL, NoReg
    <3>2. v % CHANS \in Chan
      BY <3>1, Sizes DEF Byte, Chan
    <3>3. QED
      BY <2>1, <3>2 DEF DataWrite
  <2>2. CASE reg # R_CTRL
    BY <2>2 DEF DataWrite
  <2>3. QED
    BY <2>1, <2>2
<1>3. (host \in [Chan -> [HostParam -> Byte]])'
  <2>1. CASE reg \in R_PARAM
    <3>1. ParamOf(reg) \in HostParam /\ Trim(reg, v) \in Byte
      BY <2>1, TrimFacts
    <3>2. host' = [host EXCEPT ![host_ch][ParamOf(reg)] = Trim(reg, v)]
      BY <2>1 DEF DataWrite
    <3>3. QED
      BY <3>1, <3>2
  <2>2. CASE reg \notin R_PARAM
    BY <2>2 DEF DataWrite
  <2>3. QED
    BY <2>1, <2>2
<1>4. (mail \in [pending: BOOLEAN, op: 0..2, ch: Chan, phase: 0..9])'
  <2>1. Posted(reg) \in [pending: BOOLEAN, op: 0..2, ch: Chan, phase: 0..9]
    <3>1. CASE reg = R_NOTE_ON
      <4>1. Posted(reg) = [pending |-> TRUE, op |-> NOTE_ON, ch |-> host_ch,
                           phase |-> 0]
        BY <3>1 DEF Posted, R_NOTE_ON, R_NOTE_OFF
      <4>2. QED
        BY <4>1 DEF NOTE_ON
    <3>2. CASE reg = R_NOTE_OFF
      <4>1. Posted(reg) = [mail EXCEPT !.pending = TRUE, !.op = NOTE_OFF,
                                       !.ch = host_ch]
        BY <3>2 DEF Posted, R_NOTE_ON, R_NOTE_OFF
      <4>2. Posted(reg) = [pending |-> TRUE, op |-> 2, ch |-> host_ch,
                           phase |-> mail.phase]
        BY <4>1 DEF NOTE_OFF
      <4>3. QED
        BY <4>2
    <3>3. CASE reg # R_NOTE_ON /\ reg # R_NOTE_OFF
      BY <3>3 DEF Posted
    <3>4. QED
      BY <3>1, <3>2, <3>3
  <2>2. mail' = Served(reg)
    BY DEF DataWrite
  <2>3. mail.phase < 9 => mail.phase + 1 \in 0..9
    OBVIOUS
  <2>4. QED
    BY <2>1, <2>2, <2>3 DEF Served
<1>5. (quiet \in 0..Wait)'
  <2>1. quiet' = IF Command(reg) /\ Wait > 0 THEN 1
                 ELSE IF quiet < Wait THEN quiet + 1 ELSE quiet
    BY DEF DataWrite
  <2>2. CASE Command(reg)
    BY <2>1, <2>2, Sizes
  <2>3. CASE ~Command(reg)
    BY <2>1, <2>3, Sizes
  <2>4. QED
    BY <2>2, <2>3
<1>6. (asked \in [Chan -> [HostParam -> 0..BYTE]])'
  <2>1. host[host_ch] \in [HostParam -> 0..BYTE]
    BY Sizes DEF Byte
  <2>2. asked' = asked \/ asked' = [asked EXCEPT ![host_ch] = host[host_ch]]
    BY DEF DataWrite
  <2>3. QED
    BY <2>1, <2>2
<1>7. QED
  BY <1>1, <1>2, <1>3, <1>4, <1>5, <1>6

LEMMA ResetType ==
  ASSUME HostTypeOK, HostReset
  PROVE  HostTypeOK'
<1>1. 0 \in Byte /\ 0 \in Chan /\ Wait \in 0..Wait /\ BYTE \in 0..BYTE
  BY Sizes DEF Byte, Chan
<1>2. SAMPLE_DIV - 1 \in 0..(SAMPLE_DIV - 1) /\ TOTAL_STEPS \in 0..TOTAL_STEPS
  BY Sizes
<1>3. (host \in [Chan -> [HostParam -> Byte]])'
  BY <1>1 DEF HostReset, Zeros
<1>4. NoNote \in [HostParam -> 0..BYTE]
  BY <1>1 DEF NoNote
<1>5. (asked \in [Chan -> [HostParam -> 0..BYTE]])'
  BY <1>4 DEF HostReset, HostTypeOK
<1>6. (mail \in [pending: BOOLEAN, op: 0..2, ch: Chan, phase: 0..9])'
  BY <1>1 DEF HostReset, NoMail
<1>7. QED
  BY <1>1, <1>2, <1>3, <1>5, <1>6 DEF HostReset, HostTypeOK

\* A channel's record stays a record through one sample.
LEMMA HostStart == HostInit => HostTypeOK
<1> SUFFICES ASSUME HostInit PROVE HostTypeOK
  OBVIOUS
<1>1. 0 \in Byte /\ 0 \in Chan /\ Wait \in 0..Wait /\ BYTE \in 0..BYTE
  BY Sizes DEF Byte, Chan
<1>2. SAMPLE_DIV - 1 \in 0..(SAMPLE_DIV - 1) /\ TOTAL_STEPS \in 0..TOTAL_STEPS
  BY Sizes
<1>3. host \in [Chan -> [HostParam -> Byte]]
  BY <1>1 DEF HostInit, Zeros
<1>4. asked \in [Chan -> [HostParam -> 0..BYTE]]
  BY <1>1 DEF HostInit, NoNote
<1>5. mail \in [pending: BOOLEAN, op: 0..2, ch: Chan, phase: 0..9]
  BY <1>1 DEF HostInit, NoMail
<1>6. QED
  BY <1>1, <1>2, <1>3, <1>4, <1>5 DEF HostInit, HostTypeOK

\* A served command writes one byte of the commanded channel's record, and not
\* the output byte.
LEMMA ServeByte ==
  ASSUME TypeOK
  PROVE  \E o \in Offset \ {O_DAC_OUT}, v \in Byte :
           \A m : Serve(m) = [m EXCEPT ![mail.ch][o] = v]
<1>1. mail.ch \in Chan /\ mail.phase \in 0..9 /\ host \in [Chan -> [HostParam -> Byte]]
  BY DEF TypeOK, HostTypeOK
<1>2. 0 \in Byte /\ ATTACK \in Byte /\ RELEASE \in Byte
  BY Sizes, Offsets DEF Byte
<1>3. CASE mail.op = NOTE_ON
  <2>1. NoteByte(mail.phase, mail.ch) \in Byte
    BY <1>1, <1>2 DEF NoteByte
  <2>2. NoteOffset(mail.phase) \in Offset \ {O_DAC_OUT}
    BY <1>1, Offsets DEF NoteOffset
  <2>3. \A m : Serve(m) = [m EXCEPT ![mail.ch][NoteOffset(mail.phase)]
                                      = NoteByte(mail.phase, mail.ch)]
    BY <1>3 DEF Serve
  <2>4. QED
    BY <2>1, <2>2, <2>3
<1>4. CASE mail.op # NOTE_ON
  <2>1. O_ENV_STATE \in Offset \ {O_DAC_OUT}
    BY Offsets
  <2>2. \A m : Serve(m) = [m EXCEPT ![mail.ch][O_ENV_STATE] = RELEASE]
    BY <1>4 DEF Serve
  <2>3. QED
    BY <1>2, <2>1, <2>2
<1>5. QED
  BY <1>3, <1>4

LEMMA ServeType ==
  ASSUME TypeOK, NEW m \in [Chan -> [Offset -> Byte]]
  PROVE  Serve(m) \in [Chan -> [Offset -> Byte]]
<1>1. PICK o \in Offset, v \in Byte : \A x : Serve(x) = [x EXCEPT ![mail.ch][o] = v]
  BY ServeByte
<1>2. mail.ch \in Chan
  BY DEF TypeOK, HostTypeOK
<1>3. Serve(m) = [m EXCEPT ![mail.ch][o] = v]
  BY <1>1
<1>4. QED
  BY <1>2, <1>3
-----------------------------------------------------------------------------
\* Between two microprograms the invariant of a pass says that RAM is settled.
LEMMA Outside ==
  ASSUME settled' = mem', ustep' = TOTAL_STEPS \/ ustep' = 0
  PROVE  PassInv' /\ ~InPass(ustep')
<1>1. ~(ustep' < TOTAL_STEPS) \/ ums' = 0
  BY Sizes DEF ums
<1>2. ~InPass(ustep')
  BY Sizes DEF InPass
<1>3. RamInv'
  BY <1>2 DEF RamInv
<1>4. AddrInv' /\ PhaseInv' /\ EnvInv' /\ ToneInv'
  BY <1>1 DEF AddrInv, PhaseInv, EnvInv, ToneInv
<1>5. QED
  BY <1>2, <1>3, <1>4 DEF PassInv

\* A sample starts when the microprogram of the last one has ended.
LEMMA StartsIdle ==
  ASSUME TypeOK, InStep, sample_start
  PROVE  ustep = TOTAL_STEPS
  BY Sizes DEF TypeOK, HostTypeOK, InStep, sample_start

LEMMA InStepTick ==
  ASSUME TypeOK, InStep, Tick
  PROVE  InStep'
  BY Sizes DEF TypeOK, HostTypeOK, InStep, Tick, sample_start

LEMMA StartInv ==
  ASSUME TypeOK, InStep, MixInv, SampleStart, Tick, History
  PROVE  PassInv' /\ MixInv' /\ BoundInv' /\ settled' = mem' /\ sums' = sums
<1>1. ustep' = 0 /\ sums' = sums /\ mix_sum' = 0 /\ sums[0] = 0
  BY DEF SampleStart, Tick, History, MixInv
<1>2. ~InPass(ustep')
  BY <1>1, Sizes DEF InPass
<1>3. settled' = mem'
  BY <1>2 DEF History
<1>4. PassInv'
  BY <1>1, <1>3, Outside
<1>5. Mixed' = 0 /\ ustep' < TOTAL_STEPS /\ ustep' # TOTAL_STEPS
  <2>1. uch' = 0 /\ ums' = 0
    BY <1>1, Sizes DEF uch, ums
  <2>2. QED
    BY <1>1, <2>1, Sizes DEF Mixed
<1>6. mix_sum' = sums'[Mixed'] + BYTE * 0 /\ 0 \in 0..Mixed'
  BY <1>1, <1>5, Sizes
<1>7. MixInv'
  BY <1>1, <1>5, <1>6 DEF MixInv
<1>8. BoundInv'
  BY <1>1, <1>5, Sizes DEF BoundInv
<1>9. QED
  BY <1>1, <1>3, <1>4, <1>7, <1>8

LEMMA IdleInv ==
  ASSUME MixInv, IdleStep \/ MailStep, Tick, History
  PROVE  PassInv' /\ MixInv' /\ BoundInv' /\ settled' = mem' /\ sums' = sums
<1>1. ustep = TOTAL_STEPS /\ ustep' = TOTAL_STEPS /\ dac_out' = dac_out
      /\ ~(ustep' < TOTAL_STEPS)
  BY Sizes DEF IdleStep, MailStep, idle, Tick, regvars
<1>2. sums' = sums
  BY <1>1, Sizes DEF History
<1>3. ~InPass(ustep')
  BY <1>1 DEF InPass
<1>4. settled' = mem'
  BY <1>3 DEF History
<1>5. PassInv'
  BY <1>1, <1>4, Outside
<1>6. MixInv'
  BY <1>1, <1>2 DEF MixInv
<1>7. BoundInv'
  BY <1>1 DEF BoundInv
<1>8. QED
  BY <1>2, <1>4, <1>5, <1>6, <1>7

LEMMA ClockType == ASSUME TypeOK, BoundInv, Clock PROVE TypeOK'
<1>1. HostTypeOK'
  BY DataWriteType DEF Clock, TypeOK
<1>2. CASE SampleStart \/ IdleStep
  <2>1. UNCHANGED <<mem, ram_addr, acc_lo, acc_hi, carry, level_r, env_state_r,
                    env_cnt_r, vol_r, wave_idx_r, rom_addr, dac_out, ch_active>>
        /\ mix_sum' \in {0, mix_sum}
    BY <1>2 DEF SampleStart, IdleStep, regvars
  <2>2. mix_sum' \in 0..(CHANS * BYTE)
    BY <2>1, Sizes DEF TypeOK
  <2>3. mem' \in [Chan -> [Offset -> Byte]]
    BY <2>1 DEF TypeOK
  <2>4. settled' \in [Chan -> [Offset -> Byte]] /\ sums' \in [0..CHANS -> Int]
    BY <2>3, HistoryType DEF Clock
  <2>5. QED
    BY <1>1, <2>1, <2>2, <2>3, <2>4 DEF TypeOK
<1>3. CASE MicroStep
  <2>1. mem' \in [Chan -> [Offset -> Byte]] /\ ram_addr' \in Chan \X Offset
    BY <1>3, RamType
  <2>2. settled' \in [Chan -> [Offset -> Byte]] /\ sums' \in [0..CHANS -> Int]
    BY <2>1, HistoryType DEF Clock
  <2>3. mix_sum' \in 0..(CHANS * BYTE)
    BY <1>3, BoundStep DEF Clock
  <2>4. QED
    BY <1>1, <1>3, <2>1, <2>2, <2>3, RegisterType DEF TypeOK
<1>4. CASE MailStep
  <2>1. UNCHANGED <<acc_lo, acc_hi, carry, level_r, env_state_r, env_cnt_r, vol_r,
                    wave_idx_r, rom_addr, mix_sum, dac_out>>
    BY <1>4 DEF MailStep
  <2>2. mail.ch \in Chan /\ mail.phase \in 0..9
    BY DEF TypeOK, HostTypeOK
  <2>3. mem' \in [Chan -> [Offset -> Byte]]
    BY <1>4, ServeType DEF MailStep, TypeOK
  <2>4. ram_addr' \in Chan \X Offset
    BY <1>4, <2>2, Offsets DEF MailStep, NoteOffset
  <2>5. ch_active' \in [Chan -> BOOLEAN]
    BY <1>4, <2>2 DEF MailStep, TypeOK
  <2>6. settled' \in [Chan -> [Offset -> Byte]] /\ sums' \in [0..CHANS -> Int]
    BY <2>3, HistoryType DEF Clock
  <2>7. QED
    BY <1>1, <2>1, <2>3, <2>4, <2>5, <2>6 DEF TypeOK
<1>5. QED
  BY <1>2, <1>3, <1>4 DEF Clock

LEMMA ClockInv == ASSUME MicroInv, Clock PROVE MicroInv'
<1> USE DEF MicroInv
<1>1. Tick /\ History
  BY DEF Clock
<1>2. TypeOK' /\ InStep'
  BY <1>1, ClockType, InStepTick
<1>3. CASE SampleStart
  BY <1>1, <1>2, <1>3, StartInv
<1>4. CASE MicroStep
  <2>1. PassInv'
    BY <1>1, <1>4, RamStep, AddrStep, PhaseStep, EnvStep, ToneStep DEF PassInv
  <2>2. BoundInv' /\ MixInv'
    BY <1>1, <1>4, BoundStep, MixStep
  <2>3. QED
    BY <1>2, <2>1, <2>2
<1>5. CASE IdleStep \/ MailStep
  BY <1>1, <1>2, <1>5, IdleInv
<1>6. QED
  BY <1>3, <1>4, <1>5 DEF Clock

LEMMA ResetInv == ASSUME MicroInv, Reset PROVE MicroInv'
<1> USE DEF MicroInv
<1>1. HostTypeOK'
  BY ResetType DEF Reset, TypeOK
<1>2. /\ ustep' = TOTAL_STEPS /\ ~(ustep' < TOTAL_STEPS) /\ settled' = mem' /\ mem' = mem
      /\ dac_out' = 0 /\ sums' = [n \in 0..CHANS |-> 0]
  BY Sizes DEF Reset, HostReset
<1>3. 0 \in Byte /\ 0 \in Chan /\ 0 \in 0..LEVEL_MAX /\ 0 \in 0..(CHANS * BYTE)
      /\ 0 \in 0..CHANS /\ CHANS \in 0..CHANS
  BY Sizes DEF Byte, Chan
<1>4. TypeOK'
  <2>1. ram_addr' \in Chan \X Offset
    BY <1>3, Offsets DEF Reset
  <2>2. rom_addr' \in (0..7) \X (0..LEVEL_MAX) \X (0..31) \X Byte
    BY <1>3 DEF Reset
  <2>3. settled' \in [Chan -> [Offset -> Byte]] /\ mem' \in [Chan -> [Offset -> Byte]]
    BY <1>2 DEF TypeOK
  <2>4. sums' \in [0..CHANS -> Int] /\ ch_active' \in [Chan -> BOOLEAN]
    BY <1>2 DEF Reset
  <2>5. QED
    BY <1>1, <1>3, <2>1, <2>2, <2>3, <2>4 DEF Reset, TypeOK
<1>5. PassInv'
  BY <1>2, Outside
<1>6. MixInv'
  <2>1. sums'[0] = 0 /\ sums'[CHANS] = 0
    BY <1>2, <1>3
  <2>2. dac_out' = (sums'[CHANS] + BYTE * 0) % BYTE
    BY <1>2, <2>1, Sizes
  <2>3. QED
    BY <1>2, <1>3, <2>1, <2>2 DEF MixInv
<1>7. InStep' /\ BoundInv'
  BY <1>2 DEF InStep, BoundInv
<1>8. QED
  BY <1>4, <1>5, <1>6, <1>7

LEMMA InitInv == Init => MicroInv
<1> SUFFICES ASSUME Init PROVE MicroInv
  OBVIOUS
<1>1. HostTypeOK
  BY HostStart DEF Init
<1>2. ustep = TOTAL_STEPS /\ ~(ustep < TOTAL_STEPS) /\ settled = mem
      /\ dac_out = 0 /\ sums = [n \in 0..CHANS |-> 0]
  BY Sizes DEF Init, HostInit
<1>3. 0 \in Byte /\ 0 \in Chan /\ 0 \in 0..LEVEL_MAX /\ 0 \in 0..(CHANS * BYTE)
      /\ 0 \in 0..CHANS /\ CHANS \in 0..CHANS
  BY Sizes DEF Byte, Chan
<1>4. TypeOK
  <2>1. ram_addr \in Chan \X Offset
    BY <1>3, Offsets DEF Init
  <2>2. rom_addr \in (0..7) \X (0..LEVEL_MAX) \X (0..31) \X Byte
    BY <1>3 DEF Init
  <2>3. mem \in [Chan -> [Offset -> Byte]] /\ settled \in [Chan -> [Offset -> Byte]]
    BY MicroAssumption DEF Init
  <2>4. sums \in [0..CHANS -> Int] /\ ch_active \in [Chan -> BOOLEAN]
    BY <1>2 DEF Init
  <2>5. QED
    BY <1>1, <1>3, <2>1, <2>2, <2>3, <2>4 DEF Init, TypeOK
<1>5. PassInv
  <2>1. ~InPass(ustep)
    BY <1>2 DEF InPass
  <2>2. QED
    BY <1>2, <2>1 DEF PassInv, RamInv, AddrInv, PhaseInv, EnvInv, ToneInv
<1>6. MixInv
  <2>1. sums[0] = 0 /\ sums[CHANS] = 0
    BY <1>2, <1>3
  <2>2. dac_out = (sums[CHANS] + BYTE * 0) % BYTE
    BY <1>2, <2>1, Sizes
  <2>3. QED
    BY <1>2, <1>3, <2>1, <2>2 DEF MixInv
<1>7. InStep /\ BoundInv
  BY <1>2 DEF InStep, BoundInv
<1>8. QED
  BY <1>4, <1>5, <1>6, <1>7 DEF MicroInv

LEMMA NextInv == MicroInv /\ [Next]_vars => MicroInv'
<1> SUFFICES ASSUME MicroInv, [Next]_vars PROVE MicroInv'
  OBVIOUS
<1>1. CASE Clock
  BY <1>1, ClockInv
<1>2. CASE Reset
  BY <1>2, ResetInv
<1>3. CASE UNCHANGED vars
  BY <1>3 DEF vars, timevars, hostvars, regvars, MicroInv, TypeOK, HostTypeOK, BoundInv,
     InStep, PassInv, RamInv, AddrInv, PhaseInv, EnvInv, ToneInv, MixInv, Found,
     Mixed, uch, ums
<1>4. QED
  BY <1>1, <1>2, <1>3 DEF Next
-----------------------------------------------------------------------------
\* The mix differs from the sum of the samples by a multiple of BYTE, and a byte
\* read as signed has only one value for every residue.
LEMMA DacExactInv == MicroInv => DacExact
<1> SUFFICES ASSUME MixInv, TypeOK, ustep = TOTAL_STEPS,
                    sums[CHANS] \in (0 - BYTE \div 2)..(BYTE \div 2 - 1)
             PROVE  Signed(dac_out) = sums[CHANS]
  BY DEF MicroInv, DacExact
<1>1. PICK n \in 0..CHANS : dac_out = (sums[CHANS] + BYTE * n) % BYTE
  BY DEF MixInv
<1>2. \A q \in Int, r \in Byte : (BYTE * q + r) % BYTE = r
  BY Residue, Sizes DEF Byte
<1>3. sums[CHANS] \in Int /\ n \in Int /\ BYTE \div 2 \in Nat
      /\ 2 * (BYTE \div 2) <= BYTE /\ BYTE \div 2 > 0
  BY Sizes
<1>4. CASE sums[CHANS] >= 0
  <2>1. sums[CHANS] \in Byte /\ sums[CHANS] + BYTE * n = BYTE * n + sums[CHANS]
    BY <1>3, <1>4, Sizes DEF Byte
  <2>2. dac_out = sums[CHANS]
    BY <1>1, <1>2, <1>3, <2>1
  <2>3. QED
    BY <1>3, <2>2, Sizes DEF Signed
<1>5. CASE sums[CHANS] < 0
  <2>1. /\ sums[CHANS] + BYTE \in Byte /\ sums[CHANS] + BYTE >= BYTE \div 2
        /\ n - 1 \in Int
    BY <1>3, <1>5, Sizes DEF Byte
  <2>2. sums[CHANS] + BYTE * n = BYTE * (n - 1) + (sums[CHANS] + BYTE)
    <3>1. BYTE * n = BYTE * (n - 1) + BYTE
      BY <1>3, Sizes
    <3>2. BYTE * (n - 1) \in Int
      BY <2>1, Sizes
    <3>3. QED
      BY <1>3, <3>1, <3>2, Sizes
  <2>3. dac_out = sums[CHANS] + BYTE
    BY <1>1, <1>2, <2>1, <2>2
  <2>4. QED
    BY <1>3, <2>1, <2>3, Sizes DEF Signed
<1>6. QED
  BY <1>3, <1>4, <1>5

\* What every clock of the microprogram finds is what its comments promise: the
\* RAM is the settled one but for the bytes the pass under way has written, the
\* byte on the RAM pins is the one addressed the clock before, the accumulator,
\* the carry and the envelope registers hold what the pass is to write, and the
\* ROM is addressed with the channel's own wave, level, volume and phase
\* (wt_ram.v:271-418).
THEOREM MicroInvariant == Spec => []MicroInv
<1>1. Init => MicroInv
  BY InitInv
<1>2. MicroInv /\ [Next]_vars => MicroInv'
  BY NextInv
<1>3. QED
  BY <1>1, <1>2, PTL DEF Spec

\* Every register of the microprogram keeps its width, the 10-bit mix_sum too:
\* no sequence of microsteps, mailbox writes and resets makes one overflow
\* (wt_ram.v:271-427).
THEOREM MicroTypeOK == Spec => []TypeOK
<1>1. MicroInv => TypeOK
  BY DEF MicroInv
<1>2. QED
  BY <1>1, MicroInvariant, PTL

\* Whenever the microprogram is done the DAC shows the signed sum of the samples
\* the channels' records ask for, if that sum fits its byte, for every number of
\* channels and every wavetable (wt_ram.v:332-345, 422-427).
THEOREM MicroDacExact == Spec => []DacExact
<1>1. MicroInv => DacExact
  BY DacExactInv
<1>2. QED
  BY <1>1, MicroInvariant, PTL
-----------------------------------------------------------------------------
\* The abstract specification has the host half and the clock of this one.
LEMMA SameHost ==
  /\ Abs!HostInit <=> HostInit
  /\ Abs!HostReset <=> HostReset
  /\ Abs!Tick <=> Tick
  /\ Abs!Reg = Reg
  /\ \A reg : Abs!Input(reg) = Input(reg)
  /\ \A reg, v : Abs!DataWrite(reg, v) <=> DataWrite(reg, v)
  /\ \A m : Abs!Serve(m) = Serve(m)
<1>1. (Abs!HostInit <=> HostInit) /\ (Abs!HostReset <=> HostReset) /\ (Abs!Tick <=> Tick)
  BY SameNames DEF Abs!HostInit, HostInit, Abs!HostReset, HostReset, Abs!Tick, Tick,
     Abs!Zeros, Zeros, Abs!NoMail, NoMail, Abs!NoNote, NoNote
<1>2. Abs!Reg = Reg /\ \A reg : Abs!Input(reg) = Input(reg)
  BY DEF Abs!Reg, Reg, Abs!Input, Input, Abs!NoReg, NoReg
<1>3. \A reg, v : Abs!DataWrite(reg, v) <=> DataWrite(reg, v)
  <2>1. Abs!R_CTRL = R_CTRL /\ Abs!R_PARAM = R_PARAM /\ Abs!R_NOTE_ON = R_NOTE_ON
        /\ Abs!R_NOTE_OFF = R_NOTE_OFF
    BY DEF Abs!R_CTRL, R_CTRL, Abs!R_PARAM, R_PARAM, Abs!R_NOTE_ON, R_NOTE_ON,
       Abs!R_NOTE_OFF, R_NOTE_OFF
  <2>2. \A reg : Abs!Command(reg) <=> Command(reg)
    BY <2>1 DEF Abs!Command, Command
  <2>3. \A reg : Abs!Paced(reg) <=> Paced(reg)
    BY <2>1, <2>2 DEF Abs!Paced, Paced
  <2>4. \A reg : Abs!Posted(reg) = Posted(reg)
    BY <2>1, SameNames DEF Abs!Posted, Posted
  <2>5. \A reg : Abs!Served(reg) = Served(reg)
    BY <2>4, SameNames DEF Abs!Served, Served
  <2>6. \A reg : Abs!ParamOf(reg) = ParamOf(reg)
    BY SameNames DEF Abs!ParamOf, ParamOf
  <2>7. \A reg, v : Abs!Trim(reg, v) = Trim(reg, v)
    BY DEF Abs!Trim, Trim
  <2>8. QED
    BY <2>1, <2>2, <2>3, <2>5, <2>6, <2>7 DEF Abs!DataWrite, DataWrite
<1>4. \A m : Abs!Serve(m) = Serve(m)
  <2>1. \A p : Abs!NoteOffset(p) = NoteOffset(p)
    BY DEF Abs!NoteOffset, NoteOffset
  <2>2. \A p, c : Abs!NoteByte(p, c) = NoteByte(p, c)
    BY <2>1, SameNames DEF Abs!NoteByte, NoteByte
  <2>3. QED
    BY <2>1, <2>2, SameNames DEF Abs!Serve, Serve
<1>5. QED
  BY <1>1, <1>2, <1>3, <1>4

\* Masked records are records, and the pass step is a microstep: the abstract
\* specification is instantiated within its own assumptions.
LEMMA AbstractParameters ==
  /\ 17 \in 0..(STEPS_PER_CH - 1)
  /\ {Masked(r) : r \in PowerOn} \subseteq [Offset -> Byte]
<1>1. \A r \in [Offset -> Byte] : Masked(r) \in [Offset -> Byte]
  BY MaskedPass
<1>2. QED
  BY <1>1, MicroAssumption, Sizes

\* Masking commutes with a change of one channel's record.
LEMMA NoDacRecord ==
  ASSUME NEW m \in [Chan -> [Offset -> Byte]], NEW c \in Chan, NEW r \in [Offset -> Byte]
  PROVE  NoDac([m EXCEPT ![c] = r]) = [NoDac(m) EXCEPT ![c] = Masked(r)]
  BY DEF NoDac

LEMMA NoDacServe ==
  ASSUME TypeOK
  PROVE  NoDac(Serve(mem)) = Serve(NoDac(mem))
<1>1. PICK o \in Offset \ {O_DAC_OUT}, v \in Byte :
        \A x : Serve(x) = [x EXCEPT ![mail.ch][o] = v]
  BY ServeByte
<1>2. mail.ch \in Chan /\ mem \in [Chan -> [Offset -> Byte]]
  BY DEF TypeOK, HostTypeOK
<1> DEFINE r == mem[mail.ch]
<1>3. r \in [Offset -> Byte] /\ [r EXCEPT ![o] = v] \in [Offset -> Byte]
  BY <1>2
<1>4. NoDac(Serve(mem)) = [NoDac(mem) EXCEPT ![mail.ch] = Masked([r EXCEPT ![o] = v])]
  <2>1. Serve(mem) = [mem EXCEPT ![mail.ch] = [r EXCEPT ![o] = v]]
    BY <1>1, <1>2
  <2>2. NoDac([mem EXCEPT ![mail.ch] = [r EXCEPT ![o] = v]])
          = [NoDac(mem) EXCEPT ![mail.ch] = Masked([r EXCEPT ![o] = v])]
    BY <1>2, <1>3, NoDacRecord
  <2>3. QED
    BY <2>1, <2>2
<1>5. Masked([r EXCEPT ![o] = v]) = [Masked(r) EXCEPT ![o] = v]
  BY <1>3, Offsets DEF Masked
<1>6. NoDac(mem)[mail.ch] = Masked(r)
  BY <1>2 DEF NoDac
<1>7. Serve(NoDac(mem)) = [NoDac(mem) EXCEPT ![mail.ch] = [Masked(r) EXCEPT ![o] = v]]
  BY <1>1, <1>6
<1>8. QED
  BY <1>4, <1>5, <1>7

\* Step 17 writes the last byte of a pass: the record is now the one that the
\* atomic pass leaves.
LEMMA PassWritten ==
  ASSUME TypeOK, PassInv, MicroStep, Tick, History, ums = 17
  PROVE  settled' = [settled EXCEPT ![uch] = Abs!Pass(Found)]
<1>1. ustep < TOTAL_STEPS /\ uch \in Chan /\ Found \in [Offset -> Byte] /\ ~sample_start
  BY FoundType DEF MicroStep, Micro
<1>2. settled \in [Chan -> [Offset -> Byte]] /\ settled[uch] = Found
  BY DEF TypeOK, Found
<1>3. /\ Abs!Torn(Found, 4) \in [Offset -> Byte]
      /\ Abs!Pass(Found) = [Abs!Torn(Found, 4) EXCEPT ![O_ENV_CNT] = Abs!NextCnt(Found)]
  BY <1>1, TornBytes
<1>4. mem = [settled EXCEPT ![uch] = Abs!Torn(Found, 4)]
  <2>1. InPass(ustep) /\ WrittenAt(ums) = 4
    BY <1>1 DEF InPass, ums, WrittenAt
  <2>2. QED
    BY <2>1 DEF PassInv, RamInv
<1>5. mem' = [mem EXCEPT ![uch][O_ENV_CNT] = Abs!NextCnt(Found)]
  BY <1>1, WritesPass, WriteEffect DEF Writes
<1>6. mem' = [settled EXCEPT ![uch] = Abs!Pass(Found)]
  <2>1. O_ENV_CNT \in Offset
    BY Offsets
  <2>2. mem' = [[settled EXCEPT ![uch] = Abs!Torn(Found, 4)]
                         EXCEPT ![uch][O_ENV_CNT] = Abs!NextCnt(Found)]
    BY <1>4, <1>5
  <2>3. mem' = [settled EXCEPT ![uch] =
                  [Abs!Torn(Found, 4) EXCEPT ![O_ENV_CNT] = Abs!NextCnt(Found)]]
    BY <1>1, <1>2, <1>3, <2>1, <2>2, WriteTwice
  <2>4. QED
    BY <1>3, <2>3
<1>7. ~InPass(ustep')
  <2>1. ums' \in {0, 18}
    BY <1>1, MicroTick, StepAdvance
  <2>2. QED
    BY <2>1 DEF InPass, ums
<1>8. QED
  BY <1>6, <1>7 DEF History

\* The clocks of a pass before and after its last write leave the settled record
\* as it is; step 18 writes the output byte, which is masked.
LEMMA PassSilent ==
  ASSUME TypeOK, PassInv, MicroStep, Tick, History, ums # 17
  PROVE  NoDac(settled') = NoDac(settled)
<1>1. ustep < TOTAL_STEPS /\ uch \in Chan /\ ums \in 0..(STEPS_PER_CH - 1)
      /\ Found \in [Offset -> Byte] /\ ~sample_start
  BY FoundType DEF MicroStep, Micro
<1>2. CASE ums <= 16
  BY <1>2, Within DEF PassInv
<1>3. CASE ums >= 18
  <2>1. mem = settled
    <3>1. ~InPass(ustep)
      BY <1>1, <1>3 DEF InPass, ums
    <3>2. QED
      BY <3>1 DEF PassInv, RamInv
  <2>2. settled' = mem'
    <3>1. ums' = 0 \/ ums' >= 19
      BY <1>1, <1>3, MicroTick, StepAdvance, Sizes
    <3>2. ums' \notin 3..17
      BY <3>1
    <3>3. ~InPass(ustep')
      BY <3>2 DEF InPass, ums
    <3>4. QED
      BY <3>3 DEF History
  <2>3. CASE ums = 18
    <3> DEFINE v == WriteStep(18, ram_io)[2]
    <3>1. WriteStep(ums, ram_io) = <<O_DAC_OUT, v>>
      BY <2>3 DEF WriteStep
    <3> HIDE DEF v
    <3>2. settled' = [settled EXCEPT ![uch][O_DAC_OUT] = v]
      BY <2>1, <2>2, <2>3, <3>1, WriteEffect DEF Writes
    <3>3. settled \in [Chan -> [Offset -> Byte]]
      BY DEF TypeOK
    <3>4. Masked([Found EXCEPT ![O_DAC_OUT] = v]) = Masked(Found)
      BY <1>1, Offsets DEF Masked
    <3>5. settled' = [settled EXCEPT ![uch] = [Found EXCEPT ![O_DAC_OUT] = v]]
      BY <1>1, <3>2, <3>3 DEF Found
    <3>6. \A c \in Chan : Masked(settled'[c]) = Masked(settled[c])
      BY <1>1, <3>3, <3>4, <3>5 DEF Found
    <3>7. QED
      BY <3>6 DEF NoDac
  <2>4. CASE ums > 18
    <3>1. mem' = mem
      BY <1>1, <2>4, NoWrite DEF Writes
    <3>2. QED
      BY <2>1, <2>2, <3>1
  <2>5. QED
    BY <1>1, <1>3, <2>3, <2>4
<1>4. QED
  BY <1>1, <1>2, <1>3

\* A microstep is a microstep of WtSynth.
LEMMA MicroRefines ==
  ASSUME TypeOK, PassInv, MicroStep, Tick, History
  PROVE  Abs!MicroStep
<1>1. ustep < TOTAL_STEPS /\ uch \in Chan /\ Found \in [Offset -> Byte] /\ ~sample_start
      /\ Mixer(ums)
  BY FoundType DEF MicroStep, Micro
<1>2. settled \in [Chan -> [Offset -> Byte]] /\ settled[uch] = Found
  BY DEF TypeOK, Found
<1>3. CASE ums # 17
  <2>1. NoDac(settled') = NoDac(settled)
    BY <1>3, PassSilent
  <2>2. ch_active' = ch_active
    BY <1>1, <1>3 DEF Mixer
  <2>3. QED
    BY <1>1, <1>3, <2>1, <2>2, SameNames DEF Abs!MicroStep, NoDac
<1>4. CASE ums = 17
  <2>1. NoDac(settled)[uch] = Masked(Found)
    BY <1>1, <1>2 DEF NoDac
  <2>2. NoDac(settled') = [NoDac(settled) EXCEPT ![uch] = Abs!Pass(NoDac(settled)[uch])]
    <3>1. settled' = [settled EXCEPT ![uch] = Abs!Pass(Found)]
      BY <1>4, PassWritten
    <3>2. Abs!Pass(Found) \in [Offset -> Byte]
      BY <1>1, PassBytes
    <3>3. NoDac(settled') = [NoDac(settled) EXCEPT ![uch] = Masked(Abs!Pass(Found))]
      BY <1>1, <1>2, <3>1, <3>2, NoDacRecord
    <3>4. Abs!Pass(Masked(Found)) = Masked(Abs!Pass(Found))
      BY <1>1, MaskedPass
    <3>5. QED
      BY <2>1, <3>3, <3>4
  <2>3. ch_active' = [ch_active EXCEPT ![uch] = Abs!NextState(NoDac(settled)[uch]) # OFF]
    <3>1. env_state_r = Abs!NextState(Found)
      BY <1>1, <1>4 DEF PassInv, EnvInv
    <3>2. Abs!NextState(Masked(Found)) = Abs!NextState(Found)
      BY <1>1, MaskedPass
    <3>3. ch_active' = [ch_active EXCEPT ![uch] = env_state_r # OFF]
      BY <1>1, <1>4 DEF Mixer
    <3>4. QED
      BY <2>1, <3>1, <3>2, <3>3
  <2>4. QED
    BY <1>1, <1>4, <2>2, <2>3, SameNames DEF Abs!MicroStep, NoDac
<1>5. QED
  BY <1>3, <1>4

LEMMA ClockRefines ==
  ASSUME MicroInv, Clock
  PROVE  Abs!Clock
<1> USE DEF MicroInv
<1>1. Tick /\ History /\ Abs!Tick
  BY SameHost DEF Clock
<1>2. \E reg \in Abs!Reg : \E v \in Abs!Input(reg) : Abs!DataWrite(reg, v)
  BY SameHost DEF Clock
<1>3. CASE SampleStart
  <2>1. mem = settled
    <3>1. ~InPass(ustep)
      BY <1>3, StartsIdle, Sizes DEF SampleStart, InPass
    <3>2. QED
      BY <3>1 DEF PassInv, RamInv
  <2>2. settled' = settled /\ ch_active' = ch_active
    BY <1>1, <1>3, <2>1, StartInv DEF SampleStart
  <2>3. Abs!SampleStart
    BY <1>3, <2>2, SameNames DEF SampleStart, Abs!SampleStart, NoDac
  <2>4. QED
    BY <1>1, <1>2, <2>3 DEF Abs!Clock
<1>4. CASE MicroStep
  <2>1. Abs!MicroStep
    BY <1>1, <1>4, MicroRefines
  <2>2. QED
    BY <1>1, <1>2, <2>1 DEF Abs!Clock
<1>5. CASE IdleStep \/ MailStep
  <2>1. mem = settled /\ settled' = mem'
    <3>1. ~InPass(ustep)
      BY <1>5, Sizes DEF IdleStep, MailStep, idle, InPass
    <3>2. QED
      BY <1>1, <1>5, <3>1, IdleInv DEF PassInv, RamInv
  <2>2. CASE IdleStep
    <3>1. settled' = settled /\ ch_active' = ch_active
      BY <2>1, <2>2 DEF IdleStep, regvars
    <3>2. Abs!IdleStep
      BY <2>2, <3>1, SameNames DEF IdleStep, Abs!IdleStep, NoDac
    <3>3. QED
      BY <1>1, <1>2, <3>2 DEF Abs!Clock
  <2>3. CASE MailStep
    <3>1. NoDac(settled') = Abs!Serve(NoDac(settled))
      BY <2>1, <2>3, NoDacServe, SameHost DEF MailStep
    <3>2. Abs!MailStep
      BY <2>3, <3>1, SameNames DEF MailStep, Abs!MailStep, NoDac
    <3>3. QED
      BY <1>1, <1>2, <3>2 DEF Abs!Clock
  <2>4. QED
    BY <1>5, <2>2, <2>3
<1>6. QED
  BY <1>3, <1>4, <1>5 DEF Clock

\* A reset keeps what the pass under way has written: none of its bytes, or the
\* first few.
LEMMA ResetRefines ==
  ASSUME MicroInv, Reset
  PROVE  Abs!Reset
<1> USE DEF MicroInv
<1>1. /\ Abs!HostReset /\ ch_active' = [c \in Chan |-> FALSE] /\ settled' = mem
      /\ settled \in [Chan -> [Offset -> Byte]]
  BY SameHost DEF Reset, TypeOK
<1>2. CASE ~InPass(ustep)
  <2>1. settled' = settled
    BY <1>1, <1>2 DEF PassInv, RamInv
  <2>2. QED
    BY <1>1, <2>1, SameNames DEF Abs!Reset, NoDac
<1>3. CASE InPass(ustep)
  <2>1. ustep < TOTAL_STEPS /\ ums \in 3..17
    BY <1>3 DEF InPass, ums
  <2>2. uch \in Chan /\ Found \in [Offset -> Byte]
    BY <2>1, FoundType
  <2>3. WrittenAt(ums) \in 1..4
    BY <2>1 DEF WrittenAt
  <2>4. PICK n \in 1..4 : settled' = [settled EXCEPT ![uch] = Abs!Torn(Found, n)]
    BY <1>1, <1>3, <2>3 DEF PassInv, RamInv
  <2>5. Abs!Torn(Found, n) \in [Offset -> Byte]
    BY <2>2, TornBytes
  <2>6. NoDac(settled)[uch] = Masked(Found)
    BY <2>2 DEF NoDac, Found
  <2>7. NoDac(settled') = [NoDac(settled) EXCEPT ![uch] = Masked(Abs!Torn(Found, n))]
    <3>1. NoDac([settled EXCEPT ![uch] = Abs!Torn(Found, n)])
            = [NoDac(settled) EXCEPT ![uch] = Masked(Abs!Torn(Found, n))]
      BY <1>1, <2>2, <2>5, NoDacRecord
    <3>2. QED
      BY <2>4, <3>1
  <2>8. NoDac(settled') = [NoDac(settled) EXCEPT ![uch] = Abs!Torn(NoDac(settled)[uch], n)]
    <3>1. Abs!Torn(Masked(Found), n) = Masked(Abs!Torn(Found, n))
      BY <2>2, MaskedPass
    <3>2. QED
      BY <2>6, <2>7, <3>1
  <2>9. ums <= 17
    BY <2>1
  <2>10. QED
    BY <1>1, <2>1, <2>8, <2>9, SameNames DEF Abs!Reset, NoDac
<1>4. QED
  BY <1>2, <1>3

LEMMA InitRefines == Init => Abs!Init
<1> SUFFICES ASSUME Init PROVE Abs!Init
  OBVIOUS
<1>1. Abs!HostInit /\ ch_active = [c \in Chan |-> FALSE]
  BY SameHost DEF Init
<1>2. NoDac(settled) \in [Chan -> {Masked(r) : r \in PowerOn}]
  BY DEF Init, NoDac
<1>3. QED
  BY <1>1, <1>2, SameNames DEF Abs!Init, NoDac

LEMMA NextRefines == MicroInv /\ [Next]_vars => [Abs!Next]_(Abs!vars)
<1> SUFFICES ASSUME MicroInv, [Next]_vars PROVE [Abs!Next]_(Abs!vars)
  OBVIOUS
<1>1. CASE Clock
  BY <1>1, ClockRefines DEF Abs!Next
<1>2. CASE Reset
  BY <1>2, ResetRefines DEF Abs!Next
<1>3. CASE UNCHANGED vars
  BY <1>3 DEF vars, timevars, hostvars, regvars, Abs!vars, Abs!timevars, Abs!hostvars,
     NoDac
<1>4. QED
  BY <1>1, <1>2, <1>3 DEF Next

\* The microprogram implements the atomic pass: with one RAM access per clock,
\* registers shared by all channels and a carry between two 8-bit additions, it
\* does to every record what one 16-bit addition and one envelope step do, and a
\* reset in the middle leaves a prefix of its writes (wt_ram.v:271-418).
THEOREM MicroAtomic == Spec => Atomic
<1>1. Init => Abs!Init
  BY InitRefines
<1>2. MicroInv /\ [Next]_vars => [Abs!Next]_(Abs!vars)
  BY NextRefines
<1>3. QED
  BY <1>1, <1>2, MicroInvariant, PTL DEF Spec, Atomic, Abs!Spec
=============================================================================
