--------------------------- MODULE WtSynthProofs ----------------------------
(***************************************************************************)
(* rtl/wt_ram.v never loses a command and never tears a note, for every    *)
(* number of channels, sample period, byte width and envelope depth, if    *)
(* the idle part of a sample holds the ten writes of a note_on and the     *)
(* host leaves TOTAL_STEPS + 12 clocks between commands (140 in the real   *)
(* device; README.md asks for 312).                                        *)
(***************************************************************************)
EXTENDS WtSynth, TLAPS

ASSUME PaceAssumption ==
  /\ SAMPLE_DIV >= TOTAL_STEPS + 11
  /\ Wait >= TOTAL_STEPS + 12

\* Clocks of RAM writing that the mailbox still needs.
Need == IF mail.op = NOTE_ON THEN 10 - mail.phase ELSE 1

\* Clocks until the mailbox is empty again: what is left of the microprogram
\* comes first, and a command that does not fit in what is left of the idle
\* period waits for a whole microprogram more.
Left ==
  IF ustep < TOTAL_STEPS THEN (TOTAL_STEPS - ustep) + Need
  ELSE IF Need <= sample_cnt THEN Need
  ELSE Need + 1 + TOTAL_STEPS

\* While the microprogram runs the divider says how far it is.
InStep == ustep < TOTAL_STEPS => ustep + sample_cnt = SAMPLE_DIV - 1

\* Whatever is pending is done before TOTAL_STEPS + 12 clocks have passed.
InTime == mail.pending => /\ mail.op \in {NOTE_ON, NOTE_OFF}
                          /\ quiet + Left <= TOTAL_STEPS + 12

PaceInv == TypeOK /\ InStep /\ InTime
-----------------------------------------------------------------------------
LEMMA Sizes ==
  /\ CHANS \in Nat \ {0} /\ STEPS_PER_CH \in Nat \ {0}
  /\ TOTAL_STEPS \in Nat /\ TOTAL_STEPS > 0
  /\ SAMPLE_DIV \in Nat /\ SAMPLE_DIV >= TOTAL_STEPS + 11
  /\ BYTE \in Nat /\ BYTE >= 8 /\ LEVEL_MAX \in Nat /\ LEVEL_MAX < BYTE
  /\ Wait \in Nat /\ Wait >= TOTAL_STEPS + 12
  BY HostAssumption, PaceAssumption DEF TOTAL_STEPS

LEMMA ModByte == ASSUME NEW x \in Nat PROVE x % BYTE \in Byte
  BY Sizes DEF Byte

LEMMA DivByte ==
  ASSUME NEW x \in Nat
  PROVE  (x % (BYTE * BYTE)) \div BYTE \in Byte
<1> DEFINE y == x % (BYTE * BYTE)
<1>1. BYTE * BYTE \in Nat /\ BYTE * BYTE > 0
  BY Sizes
<1>2. y \in Nat /\ y < BYTE * BYTE
  BY <1>1
<1> HIDE DEF y
<1>3. y \div BYTE \in Byte
  BY <1>2, Sizes DEF Byte
<1>4. QED
  BY <1>3 DEF y

LEMMA ParamFacts ==
  ASSUME NEW reg \in R_PARAM
  PROVE  /\ ParamOf(reg) \in HostParam
         /\ \A v \in Byte : Trim(reg, v) \in Byte
<1>1. ParamOf(reg) \in HostParam
  BY DEF R_PARAM, ParamOf, HostParam, O_WAVE_IDX, O_VOL, O_ENV_RATE, O_STEP_LO,
         O_STEP_HI
<1>2. ASSUME NEW v \in Byte PROVE Trim(reg, v) \in Byte
  BY Sizes DEF Trim, Byte
<1>3. QED
  BY <1>1, <1>2

LEMMA TrimFacts ==
  ASSUME NEW reg \in Reg, NEW v \in Input(reg)
  PROVE  /\ reg # NoReg => v \in Byte
         /\ reg \in R_PARAM => /\ ParamOf(reg) \in HostParam
                               /\ Trim(reg, v) \in Byte
<1>1. reg # NoReg => v \in Byte
  BY HostAssumption DEF Input, Reg, NoReg, Byte
<1>2. reg \in R_PARAM => reg # NoReg
  BY DEF R_PARAM, NoReg
<1>3. QED
  BY <1>1, <1>2, ParamFacts

\* The host half of a clock keeps its types.
LEMMA DataWriteType ==
  ASSUME HostTypeOK, Tick, NEW reg \in Reg, NEW v \in Input(reg),
         DataWrite(reg, v)
  PROVE  HostTypeOK'
<1> USE DEF HostTypeOK
<1>1. (sample_cnt \in 0..(SAMPLE_DIV - 1))' /\ (ustep \in 0..TOTAL_STEPS)'
  BY Sizes DEF Tick, sample_start
<1>2. (host_ch \in Chan)'
  <2>1. CASE reg = R_CTRL
    <3>1. v \in Byte
      BY <2>1, TrimFacts DEF R_CTRL, NoReg
    <3>2. v % CHANS \in Chan
      BY <3>1, Sizes DEF Byte, Chan
    <3>3. QED
      BY <2>1, <3>2 DEF DataWrite
  <2>2. CASE reg # R_CTRL
    BY <2>2 DEF DataWrite
  <2>3. QED
    BY <2>1, <2>2
<1>3. (host \in [Chan -> [HostParam -> Byte]])'
  <2>1. CASE reg \in R_PARAM
    <3>1. ParamOf(reg) \in HostParam /\ Trim(reg, v) \in Byte
      BY <2>1, TrimFacts
    <3>2. host' = [host EXCEPT ![host_ch][ParamOf(reg)] = Trim(reg, v)]
      BY <2>1 DEF DataWrite
    <3>3. QED
      BY <3>1, <3>2
  <2>2. CASE reg \notin R_PARAM
    BY <2>2 DEF DataWrite
  <2>3. QED
    BY <2>1, <2>2
<1>4. (mail \in [pending: BOOLEAN, op: 0..2, ch: Chan, phase: 0..9])'
  <2>1. Posted(reg) \in [pending: BOOLEAN, op: 0..2, ch: Chan, phase: 0..9]
    <3>1. CASE reg = R_NOTE_ON
      <4>1. Posted(reg) = [pending |-> TRUE, op |-> NOTE_ON, ch |-> host_ch,
                           phase |-> 0]
        BY <3>1 DEF Posted, R_NOTE_ON, R_NOTE_OFF
      <4>2. QED
        BY <4>1 DEF NOTE_ON
    <3>2. CASE reg = R_NOTE_OFF
      <4>1. Posted(reg) = [mail EXCEPT !.pending = TRUE, !.op = NOTE_OFF,
                                       !.ch = host_ch]
        BY <3>2 DEF Posted, R_NOTE_ON, R_NOTE_OFF
      <4>2. Posted(reg) = [pending |-> TRUE, op |-> 2, ch |-> host_ch,
                           phase |-> mail.phase]
        BY <4>1 DEF NOTE_OFF
      <4>3. QED
        BY <4>2
    <3>3. CASE reg # R_NOTE_ON /\ reg # R_NOTE_OFF
      BY <3>3 DEF Posted
    <3>4. QED
      BY <3>1, <3>2, <3>3
  <2>2. mail' = Served(reg)
    BY DEF DataWrite
  <2>3. mail.phase < 9 => mail.phase + 1 \in 0..9
    OBVIOUS
  <2>4. QED
    BY <2>1, <2>2, <2>3 DEF Served
<1>5. (quiet \in 0..Wait)'
  <2>1. quiet' = IF Command(reg) /\ Wait > 0 THEN 1
                 ELSE IF quiet < Wait THEN quiet + 1 ELSE quiet
    BY DEF DataWrite
  <2>2. CASE Command(reg)
    BY <2>1, <2>2, Sizes
  <2>3. CASE ~Command(reg)
    BY <2>1, <2>3, Sizes
  <2>4. QED
    BY <2>2, <2>3
<1>6. (asked \in [Chan -> [HostParam -> 0..BYTE]])'
  <2>1. host[host_ch] \in [HostParam -> 0..BYTE]
    BY Sizes DEF Byte
  <2>2. asked' = asked \/ asked' = [asked EXCEPT ![host_ch] = host[host_ch]]
    BY DEF DataWrite
  <2>3. QED
    BY <2>1, <2>2
<1>7. QED
  BY <1>1, <1>2, <1>3, <1>4, <1>5, <1>6

LEMMA ResetType ==
  ASSUME HostTypeOK, HostReset
  PROVE  HostTypeOK'
<1>1. 0 \in Byte /\ 0 \in Chan /\ Wait \in 0..Wait /\ BYTE \in 0..BYTE
  BY Sizes DEF Byte, Chan
<1>2. SAMPLE_DIV - 1 \in 0..(SAMPLE_DIV - 1) /\ TOTAL_STEPS \in 0..TOTAL_STEPS
  BY Sizes
<1>3. (host \in [Chan -> [HostParam -> Byte]])'
  BY <1>1 DEF HostReset, Zeros
<1>4. NoNote \in [HostParam -> 0..BYTE]
  BY <1>1 DEF NoNote
<1>5. (asked \in [Chan -> [HostParam -> 0..BYTE]])'
  BY <1>4 DEF HostReset, HostTypeOK
<1>6. (mail \in [pending: BOOLEAN, op: 0..2, ch: Chan, phase: 0..9])'
  BY <1>1 DEF HostReset, NoMail
<1>7. QED
  BY <1>1, <1>2, <1>3, <1>5, <1>6 DEF HostReset, HostTypeOK

\* A channel's record stays a record through one sample.
LEMMA PassType ==
  ASSUME NEW r \in [Offset -> Byte]
  PROVE  Pass(r) \in [Offset -> Byte]
<1>1. \A o \in Offset : r[o] \in Nat /\ r[o] < BYTE
  BY Sizes DEF Byte
<1>2. {O_PHASE_LO, O_PHASE_HI, O_STEP_LO, O_STEP_HI, O_ENV_STATE, O_LEVEL,
       O_ENV_CNT, O_ENV_RATE} \subseteq Offset
  BY DEF O_PHASE_LO, O_PHASE_HI, O_STEP_LO, O_STEP_HI, O_ENV_STATE, O_LEVEL,
         O_ENV_CNT, O_ENV_RATE, Offset
<1>3. NextPhase(r) % BYTE \in Byte /\ NextPhase(r) \div BYTE \in Byte
  <2> DEFINE x == r[O_PHASE_LO] + r[O_STEP_LO]
                    + BYTE * (r[O_PHASE_HI] + r[O_STEP_HI])
  <2>1. x \in Nat
    BY <1>1, <1>2, Sizes
  <2>2. x % (BYTE * BYTE) \in Nat
    BY <2>1, Sizes
  <2> HIDE DEF x
  <2>3. (x % (BYTE * BYTE)) % BYTE \in Byte /\ (x % (BYTE * BYTE)) \div BYTE \in Byte
    BY <2>1, <2>2, ModByte, DivByte
  <2>4. QED
    BY <2>3 DEF NextPhase, x
<1>4. EnvState(r) \in 0..7
  BY <1>1, <1>2 DEF EnvState
<1>5. NextState(r) \in Byte
  BY <1>4, Sizes DEF NextState, Byte, SUSTAIN, OFF
<1>6. EnvLevel(r) \in 0..LEVEL_MAX
  BY <1>1, <1>2, Sizes DEF EnvLevel
<1>7. NextLevel(r) \in Byte
  BY <1>6, Sizes DEF NextLevel, Byte
\* The counter is incremented with no check of its own: it is below the rate.
<1>8. NextCnt(r) \in Byte
  <2> DEFINE cnt == r[O_ENV_CNT]
             rate == r[O_ENV_RATE]
  <2>1. cnt \in Nat /\ rate \in Nat /\ cnt < BYTE /\ rate < BYTE
    BY <1>1, <1>2
  <2>2. EnvFires(r) <=> EnvState(r) # OFF /\ cnt >= rate
    BY DEF EnvFires
  <2>3. ~EnvFires(r) /\ EnvState(r) # OFF => cnt + 1 \in Byte
    BY <2>1, <2>2, Sizes DEF Byte
  <2>4. cnt \in Byte /\ 0 \in Byte
    BY <2>1, Sizes DEF Byte
  <2>5. QED
    BY <2>3, <2>4 DEF NextCnt
<1>9. QED
  BY <1>3, <1>5, <1>7, <1>8 DEF Pass

LEMMA ByteFacts ==
  /\ O_ENV_STATE \in Offset /\ RELEASE \in Byte /\ ATTACK \in Byte /\ 0 \in Byte
  /\ HostParam \subseteq Offset
  /\ \A p \in 0..9 : NoteOffset(p) \in Offset
  BY Sizes DEF O_ENV_STATE, Offset, RELEASE, ATTACK, Byte, NoteOffset, HostParam,
     O_STEP_LO, O_STEP_HI, O_VOL, O_WAVE_IDX, O_ENV_RATE

\* A served command writes a byte of the commanded channel's record.
LEMMA ServeType ==
  ASSUME TypeOK
  PROVE  Serve(ram) \in [Chan -> [Offset -> Byte]]
<1>1. ram \in [Chan -> [Offset -> Byte]] /\ mail.ch \in Chan /\ mail.phase \in 0..9
  BY DEF TypeOK, HostTypeOK
<1>2. NoteByte(mail.phase, mail.ch) \in Byte
  <2>1. host \in [Chan -> [HostParam -> Byte]]
    BY DEF TypeOK, HostTypeOK
  <2>2. QED
    BY <1>1, <2>1, ByteFacts DEF NoteByte
<1>3. NoteOffset(mail.phase) \in Offset
  BY <1>1, ByteFacts
<1>4. CASE mail.op = NOTE_ON
  BY <1>1, <1>2, <1>3, <1>4 DEF Serve
<1>5. CASE mail.op # NOTE_ON
  BY <1>1, <1>5, ByteFacts DEF Serve
<1>6. QED
  BY <1>4, <1>5

LEMMA TypeInit == Init => TypeOK
<1> SUFFICES ASSUME Init PROVE TypeOK
  OBVIOUS
<1>1. 0 \in Byte /\ 0 \in Chan /\ Wait \in 0..Wait /\ BYTE \in 0..BYTE
  BY Sizes DEF Byte, Chan
<1>2. SAMPLE_DIV - 1 \in 0..(SAMPLE_DIV - 1) /\ TOTAL_STEPS \in 0..TOTAL_STEPS
  BY Sizes
<1>3. host \in [Chan -> [HostParam -> Byte]]
  BY <1>1 DEF Init, HostInit, Zeros
<1>4. asked \in [Chan -> [HostParam -> 0..BYTE]]
  BY <1>1 DEF Init, HostInit, NoNote
<1>5. mail \in [pending: BOOLEAN, op: 0..2, ch: Chan, phase: 0..9]
  BY <1>1 DEF Init, HostInit, NoMail
<1>6. HostTypeOK
  BY <1>1, <1>2, <1>3, <1>4, <1>5 DEF Init, HostInit, HostTypeOK
<1>7. ram \in [Chan -> [Offset -> Byte]]
  BY SynthAssumption DEF Init
<1>8. ch_active \in [Chan -> BOOLEAN]
  BY DEF Init
<1>9. QED
  BY <1>6, <1>7, <1>8 DEF TypeOK

\* The channel being processed is one of the channels.
LEMMA UchType ==
  ASSUME ustep \in 0..TOTAL_STEPS, ustep < TOTAL_STEPS
  PROVE  uch \in Chan
<1>1. CHANS \in Nat \ {0} /\ STEPS_PER_CH \in Nat \ {0} /\ ustep \in Nat
      /\ ustep < CHANS * STEPS_PER_CH
  BY Sizes DEF TOTAL_STEPS
<1>2. (ustep \div STEPS_PER_CH) \in Nat /\ (ustep \div STEPS_PER_CH) < CHANS
  BY <1>1
<1>3. QED
  BY <1>2, Sizes DEF uch, Chan

LEMMA TypeClock == ASSUME TypeOK, Clock PROVE TypeOK'
<1>1. HostTypeOK'
  BY DataWriteType DEF Clock, TypeOK
<1>2. (ram \in [Chan -> [Offset -> Byte]])' /\ (ch_active \in [Chan -> BOOLEAN])'
  <2>1. CASE SampleStart \/ IdleStep
    BY <2>1 DEF TypeOK, SampleStart, IdleStep
  <2>2. CASE MicroStep
    <3>1. uch \in Chan
      BY <2>2, UchType DEF MicroStep, TypeOK, HostTypeOK
    <3>2. Pass(ram[uch]) \in [Offset -> Byte]
      BY <3>1, PassType DEF TypeOK
    <3>3. CASE ums = PASS_STEP
      <4>1. ram' = [ram EXCEPT ![uch] = Pass(@)]
            /\ ch_active' = [ch_active EXCEPT ![uch] = NextState(ram[uch]) # OFF]
        BY <2>2, <3>3 DEF MicroStep
      <4>2. (ram \in [Chan -> [Offset -> Byte]])'
        BY <3>1, <3>2, <4>1 DEF TypeOK
      <4>3. (NextState(ram[uch]) # OFF) \in BOOLEAN
        OBVIOUS
      <4>4. (ch_active \in [Chan -> BOOLEAN])'
        BY <3>1, <4>1, <4>3, Zenon DEF TypeOK
      <4>5. QED
        BY <4>2, <4>4
    <3>4. CASE ums # PASS_STEP
      BY <2>2, <3>4 DEF MicroStep, TypeOK
    <3>5. QED
      BY <3>3, <3>4
  <2>3. CASE MailStep
    <3>1. (ram \in [Chan -> [Offset -> Byte]])'
      BY <2>3, ServeType DEF MailStep
    <3>2. ch_active' = ch_active \/ ch_active' = [ch_active EXCEPT ![mail.ch] = TRUE]
      BY <2>3 DEF MailStep
    <3>3. (ch_active \in [Chan -> BOOLEAN])'
      BY <3>2 DEF TypeOK
    <3>4. QED
      BY <3>1, <3>3
  <2>4. QED
    BY <2>1, <2>2, <2>3 DEF Clock
<1>3. QED
  BY <1>1, <1>2 DEF TypeOK

LEMMA TypeReset == ASSUME TypeOK, Reset PROVE TypeOK'
<1>1. HostTypeOK'
  BY ResetType DEF Reset, TypeOK
<1>2. (ch_active \in [Chan -> BOOLEAN])'
  BY DEF Reset
<1>3. (ram \in [Chan -> [Offset -> Byte]])'
  <2>1. CASE UNCHANGED ram
    BY <2>1 DEF TypeOK
  <2>2. CASE ustep < TOTAL_STEPS
             /\ \E n \in 1..4 : ram' = [ram EXCEPT ![uch] = Torn(@, n)]
    <3>1. uch \in Chan
      BY <2>2, UchType DEF TypeOK, HostTypeOK
    <3>2. ram[uch] \in [Offset -> Byte] /\ Pass(ram[uch]) \in [Offset -> Byte]
      BY <3>1, PassType DEF TypeOK
    <3>3. \A n \in 1..4 : Torn(ram[uch], n) \in [Offset -> Byte]
      BY <3>2 DEF Torn
    <3>4. QED
      BY <2>2, <3>1, <3>3 DEF TypeOK
  <2>3. QED
    BY <2>1, <2>2 DEF Reset
<1>4. QED
  BY <1>1, <1>2, <1>3 DEF TypeOK

\* rtl/wt_ram.v: every register and RAM byte keeps its width and meaning,
\* whatever the host writes and whenever reset falls.
THEOREM SynthTypeOK == Spec => []TypeOK
<1>1. TypeOK /\ UNCHANGED vars => TypeOK'
  BY DEF TypeOK, HostTypeOK, vars, timevars, hostvars
<1>2. TypeOK /\ [Next]_vars => TypeOK'
  BY <1>1, TypeClock, TypeReset DEF Next
<1>3. QED
  BY TypeInit, <1>2, PTL DEF Spec
-----------------------------------------------------------------------------
\* What the numbers of PaceInv are.
LEMMA PaceNumbers ==
  ASSUME TypeOK
  PROVE  /\ sample_cnt \in Nat /\ sample_cnt < SAMPLE_DIV
         /\ ustep \in Nat /\ ustep <= TOTAL_STEPS
         /\ quiet \in Nat /\ quiet <= Wait
         /\ mail.phase \in Nat /\ mail.phase <= 9
         /\ Need \in 1..10
         /\ NOTE_ON = 1 /\ NOTE_OFF = 2
  BY Sizes DEF TypeOK, HostTypeOK, Need, NOTE_ON, NOTE_OFF

\* A free mailbox is the only one that takes a command.
LEMMA FreeMailbox ==
  ASSUME PaceInv, quiet = Wait
  PROVE  ~mail.pending
<1>1. CASE mail.pending
  <2>1. quiet + Left <= TOTAL_STEPS + 12
    BY <1>1 DEF PaceInv, InTime
  <2>2. Left \in Nat /\ Left > 0
    BY PaceNumbers, Sizes DEF Left, PaceInv
  <2>3. FALSE
    BY <2>1, <2>2, Sizes
  <2>4. QED
    BY <2>3
<1>2. QED
  BY <1>1

LEMMA InStepClock ==
  ASSUME PaceInv, Tick
  PROVE  InStep'
  BY PaceNumbers, Sizes DEF PaceInv, InStep, Tick, sample_start

\* A command that is already waiting: its time left shrinks with every clock.
LEMMA PendingClock ==
  ASSUME PaceInv, Tick, mail.pending, NEW reg \in Reg, NEW v \in Input(reg),
         DataWrite(reg, v)
  PROVE  InTime'
<1>1. /\ mail.op \in {NOTE_ON, NOTE_OFF}
      /\ quiet + Left <= TOTAL_STEPS + 12
  BY DEF PaceInv, InTime
<1>2. quiet < Wait
  BY FreeMailbox, PaceNumbers, Sizes DEF PaceInv
<1>3. ~Command(reg)
  BY <1>2, PaceNumbers DEF DataWrite, Paced, PaceInv
<1>4. Posted(reg) = mail
  BY <1>3 DEF Posted, Command
<1>5. quiet' = quiet + 1
  BY <1>2, <1>3 DEF DataWrite
<1>6. CASE idle
  <2>1. CASE mail.op = NOTE_ON /\ mail.phase < 9
    <3>1. mail' = [mail EXCEPT !.phase = mail.phase + 1]
      BY <1>4, <1>6, <2>1 DEF DataWrite, Served
    <3>2. mail'.op = mail.op /\ mail'.phase = mail.phase + 1
      BY <3>1 DEF PaceInv, TypeOK, HostTypeOK
    <3>3. Need' = Need - 1 /\ Need > 1
      BY <2>1, <3>2, PaceNumbers DEF Need, PaceInv
    <3>4. ustep = TOTAL_STEPS /\ ustep' = TOTAL_STEPS /\ sample_cnt' = sample_cnt - 1
      BY <1>6, Sizes DEF idle, Tick
    <3>5. Left' = Left - 1
      BY <3>3, <3>4, PaceNumbers, Sizes DEF Left, PaceInv
    <3>6. Left \in Nat
      BY PaceNumbers, Sizes DEF Left, PaceInv
    <3>7. (quiet + Left)' <= TOTAL_STEPS + 12
      BY <1>1, <1>5, <3>5, <3>6, PaceNumbers, Sizes DEF PaceInv
    <3>8. QED
      BY <1>1, <3>2, <3>7 DEF InTime
  <2>2. CASE ~(mail.op = NOTE_ON /\ mail.phase < 9)
    <3>1. mail' = [mail EXCEPT !.pending = FALSE]
      BY <1>4, <1>6, <2>2 DEF DataWrite, Served
    <3>2. ~mail'.pending
      BY <3>1 DEF PaceInv, TypeOK, HostTypeOK
    <3>3. QED
      BY <3>2 DEF InTime
  <2>3. QED
    BY <2>1, <2>2
<1>7. CASE ~idle
  <2>1. mail' = mail
    BY <1>4, <1>7 DEF DataWrite, Served
  <2>2. Need' = Need
    BY <2>1 DEF Need
  <2>3. Left' = Left - 1
    <3>1. CASE sample_cnt = 0
      <4>1. ustep = TOTAL_STEPS
        BY <3>1, PaceNumbers, Sizes DEF PaceInv, InStep
      <4>2. ustep' = 0 /\ sample_cnt' = SAMPLE_DIV - 1
        BY <3>1 DEF Tick, sample_start
      <4>3. QED
        BY <2>2, <3>1, <4>1, <4>2, PaceNumbers, Sizes DEF Left, PaceInv
    <3>2. CASE sample_cnt # 0
      <4>1. ustep < TOTAL_STEPS
        BY <1>7, <3>2, PaceNumbers, Sizes DEF idle, sample_start, PaceInv
      <4>2. ustep' = ustep + 1 /\ sample_cnt' = sample_cnt - 1
        BY <3>2, <4>1 DEF Tick, sample_start
      <4>3. ustep + sample_cnt = SAMPLE_DIV - 1
        BY <4>1 DEF PaceInv, InStep
      <4>4. QED
        BY <2>2, <4>1, <4>2, <4>3, PaceNumbers, Sizes DEF Left, PaceInv
    <3>3. QED
      BY <3>1, <3>2
  <2>4. Left \in Nat
    BY PaceNumbers, Sizes DEF Left, PaceInv
  <2>5. (quiet + Left)' <= TOTAL_STEPS + 12
    BY <1>1, <1>5, <2>3, <2>4, PaceNumbers, Sizes DEF PaceInv
  <2>6. QED
    BY <1>1, <2>1, <2>5 DEF InTime
<1>8. QED
  BY <1>6, <1>7

\* A command that arrives: even if it misses the idle period altogether, one
\* microprogram and its own writes are all there is to wait for.
LEMMA ArrivingClock ==
  ASSUME TypeOK, TypeOK', ~mail.pending,
         NEW reg \in Reg, NEW v \in Input(reg), DataWrite(reg, v)
  PROVE  InTime'
<1>1. mail' = Posted(reg)
  BY DEF DataWrite, Served
<1>2. CASE Command(reg)
  <2>1. quiet' = 1
    BY <1>2, Sizes DEF DataWrite
  <2>2. mail'.op \in {NOTE_ON, NOTE_OFF}
    <3>1. CASE reg = R_NOTE_ON
      <4>1. mail' = [pending |-> TRUE, op |-> NOTE_ON, ch |-> host_ch, phase |-> 0]
        BY <1>1, <3>1 DEF Posted, R_NOTE_ON, R_NOTE_OFF
      <4>2. QED
        BY <4>1
    <3>2. CASE reg = R_NOTE_OFF
      <4>1. mail' = [mail EXCEPT !.pending = TRUE, !.op = NOTE_OFF, !.ch = host_ch]
        BY <1>1, <3>2 DEF Posted, R_NOTE_ON, R_NOTE_OFF
      <4>2. QED
        BY <4>1 DEF TypeOK, HostTypeOK
    <3>3. QED
      BY <1>2, <3>1, <3>2 DEF Command
  <2>3. Left' \in 0..(TOTAL_STEPS + 11)
    <3>1. Need' \in 1..10
      BY Sizes DEF TypeOK, HostTypeOK, Need, NOTE_ON, NOTE_OFF
    <3>2. ustep' \in 0..TOTAL_STEPS
      BY DEF TypeOK, HostTypeOK
    <3>3. Left' \in {(TOTAL_STEPS - ustep') + Need', Need', Need' + 1 + TOTAL_STEPS}
      BY DEF Left
    <3>4. \A t \in Nat : \A n \in 1..10 : \A u \in 0..t :
            {(t - u) + n, n, n + 1 + t} \subseteq 0..(t + 11)
      OBVIOUS
    <3>5. TOTAL_STEPS \in Nat
      BY Sizes
    <3>6. QED
      BY <3>1, <3>2, <3>3, <3>4, <3>5
  <2>4. (quiet + Left)' <= TOTAL_STEPS + 12
    <3>1. \A t \in Nat : \A l \in 0..(t + 11) : 1 + l <= t + 12
      OBVIOUS
    <3>2. QED
      BY <2>1, <2>3, <3>1, Sizes
  <2>5. QED
    BY <2>2, <2>4 DEF InTime
<1>3. CASE ~Command(reg)
  BY <1>1, <1>3 DEF Posted, Command, InTime
<1>4. QED
  BY <1>2, <1>3

LEMMA PaceInit == Init => PaceInv
<1> SUFFICES ASSUME Init PROVE PaceInv
  OBVIOUS
<1>1. TypeOK
  BY TypeInit
<1>2. ustep = TOTAL_STEPS /\ ~mail.pending
  BY DEF Init, HostInit, NoMail
<1>3. QED
  BY <1>1, <1>2, Sizes DEF PaceInv, InStep, InTime

LEMMA PaceNext == PaceInv /\ [Next]_vars => PaceInv'
<1>1. ASSUME PaceInv, Clock PROVE PaceInv'
  <2>1. TypeOK'
    BY <1>1, TypeClock DEF PaceInv
  <2>2. PICK reg \in Reg : \E v \in Input(reg) : DataWrite(reg, v)
    BY <1>1 DEF Clock
  <2>3. PICK v \in Input(reg) : DataWrite(reg, v)
    BY <2>2
  <2>4. InStep'
    BY <1>1, InStepClock DEF Clock
  <2>5. InTime'
    <3>1. Tick
      BY <1>1 DEF Clock
    <3>2. CASE mail.pending
      BY <1>1, <2>3, <3>1, <3>2, PendingClock
    <3>3. CASE ~mail.pending
      BY <1>1, <2>1, <2>3, <3>3, ArrivingClock DEF PaceInv
    <3>4. QED
      BY <3>2, <3>3
  <2>6. QED
    BY <2>1, <2>4, <2>5 DEF PaceInv
<1>2. ASSUME PaceInv, Reset PROVE PaceInv'
  <2>1. TypeOK'
    BY <1>2, TypeReset DEF PaceInv
  <2>2. ustep' = TOTAL_STEPS /\ ~mail'.pending
    BY <1>2 DEF Reset, HostReset, NoMail
  <2>3. InStep' /\ InTime'
    BY <2>2, Sizes DEF InStep, InTime
  <2>4. QED
    BY <2>1, <2>3 DEF PaceInv
<1>3. ASSUME PaceInv, UNCHANGED vars PROVE PaceInv'
  <2>1. UNCHANGED <<sample_cnt, ustep, host_ch, host, mail, quiet, asked, ram, ch_active>>
    BY <1>3 DEF vars, timevars, hostvars
  <2>2. TypeOK' /\ InStep'
    BY <1>3, <2>1 DEF PaceInv, TypeOK, HostTypeOK, InStep
  <2>3. InTime'
    BY <1>3, <2>1 DEF PaceInv, InTime, Left, Need
  <2>4. QED
    BY <2>2, <2>3 DEF PaceInv
<1>4. QED
  BY <1>1, <1>2, <1>3 DEF Next

\* rtl/wt_ram.v: the pace of the mailbox is an invariant of the synthesizer.
THEOREM SynthPaceInv == Spec => []PaceInv
<1>1. QED
  BY PaceInit, PaceNext, PTL DEF Spec

\* rtl/wt_ram.v:243-253, 428-532: a host that leaves TOTAL_STEPS + 12 clocks
\* between commands never overwrites one in the one-entry mailbox.
THEOREM SynthMailboxFree == Spec => []MailboxFree
<1>1. PaceInv => MailboxFree
  BY FreeMailbox DEF MailboxFree
<1>2. QED
  BY <1>1, SynthPaceInv, PTL
-----------------------------------------------------------------------------
\* The record bytes that the note_on under way has written.
Done(o) == o < NoteOffset(mail.phase)

\* While a note_on is under way the host leaves its parameters alone, and those
\* already written are the host's.
NoteUnderWay ==
  \A c \in Chan : Starting(c) =>
    /\ asked[c] = host[c]
    /\ \A o \in HostParam : Done(o) => ram[c][o] = host[c][o]

NoteInv == PaceInv /\ NoteIntact /\ NoteUnderWay
-----------------------------------------------------------------------------
LEMMA Params ==
  /\ HostParam \subseteq Offset
  /\ O_ENV_STATE \notin HostParam
  /\ HostParam \cap {O_PHASE_LO, O_PHASE_HI, O_ENV_STATE, O_LEVEL, O_ENV_CNT} = {}
  BY DEF HostParam, Offset, O_PHASE_LO, O_PHASE_HI, O_STEP_LO, O_STEP_HI, O_LEVEL,
         O_ENV_STATE, O_ENV_CNT, O_VOL, O_WAVE_IDX, O_ENV_RATE

\* A note_on writes its bytes in the order of their offsets, all of them.
LEMMA NoteOrder ==
  ASSUME NEW p \in 0..9, NEW o \in HostParam
  PROVE  /\ p < 9 => (o < NoteOffset(p + 1) <=> o < NoteOffset(p) \/ o = NoteOffset(p))
         /\ p = 9 => o < NoteOffset(p) \/ o = NoteOffset(p)
         /\ ~ o < NoteOffset(0)
  BY DEF HostParam, NoteOffset, O_STEP_LO, O_STEP_HI, O_VOL, O_WAVE_IDX, O_ENV_RATE

\* The microprogram never writes a parameter.
LEMMA PassKeepsParams ==
  ASSUME NEW r \in [Offset -> Byte], NEW o \in HostParam
  PROVE  /\ Pass(r)[o] = r[o]
         /\ \A n \in 1..4 : Torn(r, n)[o] = r[o]
<1>1. o \in Offset /\ o \notin {O_PHASE_LO, O_PHASE_HI, O_ENV_STATE, O_LEVEL, O_ENV_CNT}
  BY Params
<1>2. Pass(r)[o] = r[o]
  BY <1>1 DEF Pass
<1>3. QED
  BY <1>1, <1>2 DEF Torn

LEMMA RunKeepsParams ==
  ASSUME TypeOK, SampleStart \/ MicroStep \/ IdleStep, NEW c \in Chan,
         NEW o \in HostParam
  PROVE  ram'[c][o] = ram[c][o]
<1>1. CASE SampleStart \/ IdleStep
  BY <1>1 DEF SampleStart, IdleStep
<1>2. CASE MicroStep
  <2>1. uch \in Chan
    BY <1>2, UchType DEF MicroStep, TypeOK, HostTypeOK
  <2>2. ram' = ram \/ ram' = [ram EXCEPT ![uch] = Pass(@)]
    BY <1>2 DEF MicroStep
  <2>3. Pass(ram[uch])[o] = ram[uch][o]
    BY <2>1, PassKeepsParams DEF TypeOK
  <2>4. QED
    BY <2>1, <2>2, <2>3 DEF TypeOK
<1>3. QED
  BY <1>1, <1>2

\* While a command waits the host sends no other, and leaves the parameters of
\* the commanded channel alone.
LEMMA WaitingHost ==
  ASSUME PaceInv, mail.pending, NEW reg \in Reg, NEW v \in Input(reg),
         DataWrite(reg, v)
  PROVE  /\ asked' = asked /\ Posted(reg) = mail
         /\ host'[mail.ch] = host[mail.ch]
<1>1. quiet # Wait
  BY FreeMailbox
<1>2. ~Command(reg)
  BY <1>1 DEF DataWrite, Paced
<1>3. reg \in R_PARAM => host_ch # mail.ch
  BY <1>1 DEF DataWrite, Paced
<1>4. asked' = asked /\ Posted(reg) = mail
  BY <1>2 DEF DataWrite, Posted, Command
<1>5. host' = host \/ \E x : host_ch # mail.ch /\ host' = [host EXCEPT ![host_ch] = x]
  BY <1>3 DEF DataWrite
<1>6. host'[mail.ch] = host[mail.ch]
  BY <1>5 DEF PaceInv, TypeOK, HostTypeOK
<1>7. QED
  BY <1>4, <1>6

\* A clock in which the mailbox is not served.
LEMMA NoteRun ==
  ASSUME NoteInv, NEW reg \in Reg, NEW v \in Input(reg), DataWrite(reg, v),
         SampleStart \/ MicroStep \/ IdleStep
  PROVE  (NoteIntact /\ NoteUnderWay)'
<1>1. \A c \in Chan : \A o \in HostParam : ram'[c][o] = ram[c][o]
  BY RunKeepsParams DEF NoteInv, PaceInv
<1>2. mail' = Posted(reg)
  BY Sizes DEF DataWrite, Served, SampleStart, MicroStep, IdleStep, idle,
     sample_start
<1>3. mail.phase \in 0..9 /\ mail.pending \in BOOLEAN /\ asked \in [Chan -> [HostParam -> 0..BYTE]]
      /\ host_ch \in Chan
  BY DEF NoteInv, PaceInv, TypeOK, HostTypeOK
<1>4. CASE mail.pending
  <2>1. mail' = mail /\ asked' = asked /\ host'[mail.ch] = host[mail.ch]
    BY <1>2, <1>4, WaitingHost DEF NoteInv
  <2>2. \A c \in Chan : Starting(c)' = Starting(c)
    BY <2>1 DEF Starting
  <2>3. NoteIntact'
    BY <1>1, <2>1, <2>2 DEF NoteInv, NoteIntact
  <2>4. NoteUnderWay'
    BY <1>1, <2>1, <2>2 DEF NoteInv, NoteUnderWay, Starting, Done
  <2>5. QED
    BY <2>3, <2>4
<1>5. CASE ~mail.pending
  <2>1. CASE reg = R_NOTE_ON
    <3>1. mail' = [pending |-> TRUE, op |-> NOTE_ON, ch |-> host_ch, phase |-> 0]
      BY <1>2, <2>1 DEF Posted, R_NOTE_ON, R_NOTE_OFF
    <3>2. host' = host /\ asked' = [asked EXCEPT ![host_ch] = host[host_ch]]
      BY <2>1 DEF DataWrite, R_NOTE_ON, R_PARAM
    <3>3. \A c \in Chan : Starting(c)' <=> c = host_ch
      BY <3>1 DEF Starting
    <3>5. NoteUnderWay'
      BY <1>3, <3>1, <3>2, <3>3, NoteOrder DEF NoteUnderWay, Done
    <3>4. \A c \in Chan : ~Starting(c)' => asked'[c] = asked[c]
      BY <1>3, <3>2, <3>3
    <3>6. NoteIntact'
      BY <1>1, <1>5, <3>4 DEF NoteInv, NoteIntact, Starting
    <3>7. QED
      BY <3>5, <3>6
  <2>2. CASE reg # R_NOTE_ON
    <3>1. asked' = asked
      BY <2>2 DEF DataWrite
    <3>2. mail'.pending = FALSE \/ mail'.op = NOTE_OFF
      BY <1>2, <1>5, <2>2 DEF Posted, NoteInv, PaceInv, TypeOK, HostTypeOK
    <3>3. \A c \in Chan : ~Starting(c)'
      BY <3>2 DEF Starting, NOTE_ON, NOTE_OFF
    <3>4. QED
      BY <1>1, <1>5, <3>1, <3>3 DEF NoteInv, NoteIntact, NoteUnderWay, Starting
  <2>3. QED
    BY <2>1, <2>2
<1>6. QED
  BY <1>3, <1>4, <1>5

\* A clock that serves a note_on.
LEMMA NoteServe ==
  ASSUME NoteInv, NEW reg \in Reg, NEW v \in Input(reg), DataWrite(reg, v),
         MailStep, mail.op = NOTE_ON
  PROVE  (NoteIntact /\ NoteUnderWay)'
<1> DEFINE ch == mail.ch
           o  == NoteOffset(mail.phase)
<1>1. /\ ram \in [Chan -> [Offset -> Byte]] /\ ch \in Chan /\ mail.phase \in 0..9
      /\ mail \in [pending: BOOLEAN, op: 0..2, ch: Chan, phase: 0..9]
  BY DEF NoteInv, PaceInv, TypeOK, HostTypeOK
<1>2. asked' = asked /\ Posted(reg) = mail /\ host'[ch] = host[ch]
  BY WaitingHost DEF NoteInv, MailStep
<1>3. ram' = [ram EXCEPT ![ch][o] = NoteByte(mail.phase, ch)]
  BY DEF MailStep, Serve
<1>4. \A c \in Chan \ {ch} : ram'[c] = ram[c] /\ ~Starting(c)
  BY <1>1, <1>3 DEF Starting
<1>5. \A q \in HostParam : ram'[ch][q] = IF q = o THEN host[ch][q] ELSE ram[ch][q]
  <2>1. o \in Offset
    BY <1>1, ByteFacts
  <2>2. o \in HostParam => NoteByte(mail.phase, ch) = host[ch][o]
    BY Params DEF NoteByte
  <2>3. QED
    BY <1>1, <1>3, <2>1, <2>2, Params
<1>6. Starting(ch) /\ asked[ch] = host[ch]
      /\ \A q \in HostParam : Done(q) => ram[ch][q] = host[ch][q]
  BY <1>1 DEF Starting, MailStep, NoteInv, NoteUnderWay
<1>7. CASE mail.phase < 9
  <2>1. mail' = [mail EXCEPT !.phase = mail.phase + 1]
    BY <1>2, <1>7 DEF DataWrite, Served, MailStep
  <2>2. mail'.phase = mail.phase + 1 /\ \A c \in Chan : Starting(c)' = Starting(c)
    BY <1>1, <2>1 DEF Starting
  <2>3. \A q \in HostParam : Done(q)' => Done(q) \/ q = o
    BY <1>1, <1>7, <2>2, NoteOrder DEF Done
  <2>4. \A q \in HostParam : Done(q)' => ram'[ch][q] = host'[ch][q]
    BY <1>2, <1>5, <1>6, <2>3
  <2>5. NoteUnderWay'
    BY <1>2, <1>4, <1>6, <2>2, <2>4 DEF NoteUnderWay
  <2>6. NoteIntact'
    BY <1>2, <1>4, <1>6, <2>2 DEF NoteIntact, NoteInv
  <2>7. QED
    BY <2>5, <2>6
<1>8. CASE mail.phase = 9
  <2>1. mail' = [mail EXCEPT !.pending = FALSE]
    BY <1>2, <1>8 DEF DataWrite, Served, MailStep
  <2>2. \A c \in Chan : ~Starting(c)'
    BY <1>1, <2>1 DEF Starting
  <2>3. \A q \in HostParam : Done(q) \/ q = o
    BY <1>1, <1>8, NoteOrder DEF Done
  <2>4. \A q \in HostParam : ram'[ch][q] = asked'[ch][q]
    BY <1>2, <1>5, <1>6, <2>3
  <2>5. NoteIntact'
    BY <1>2, <1>4, <2>4 DEF NoteIntact, NoteInv
  <2>6. QED
    BY <2>2, <2>5 DEF NoteUnderWay
<1>9. QED
  BY <1>1, <1>7, <1>8

\* A clock that serves a note_off.
LEMMA NoteServeOff ==
  ASSUME NoteInv, NEW reg \in Reg, NEW v \in Input(reg), DataWrite(reg, v),
         MailStep, mail.op # NOTE_ON
  PROVE  (NoteIntact /\ NoteUnderWay)'
<1>1. /\ ram \in [Chan -> [Offset -> Byte]] /\ mail.ch \in Chan
      /\ mail \in [pending: BOOLEAN, op: 0..2, ch: Chan, phase: 0..9]
  BY DEF NoteInv, PaceInv, TypeOK, HostTypeOK
<1>2. asked' = asked /\ Posted(reg) = mail
  BY WaitingHost DEF NoteInv, MailStep
<1>3. mail' = [mail EXCEPT !.pending = FALSE]
  BY <1>2 DEF DataWrite, Served, MailStep
<1>4. \A c \in Chan : ~Starting(c)' /\ ~Starting(c)
  BY <1>1, <1>3 DEF Starting
<1>5. ram' = [ram EXCEPT ![mail.ch][O_ENV_STATE] = RELEASE]
  BY DEF MailStep, Serve
<1>6. \A c \in Chan : \A o \in HostParam : ram'[c][o] = ram[c][o]
  BY <1>1, <1>5, Params
<1>7. QED
  BY <1>2, <1>4, <1>6 DEF NoteInv, NoteIntact, NoteUnderWay

\* A reset forgets the note it interrupts.
LEMMA ResetAsked ==
  ASSUME TypeOK, Reset, NEW c \in Chan, asked'[c] # NoNote
  PROVE  asked'[c] = asked[c] /\ ~Starting(c)
<1>1. asked' = IF mail.pending /\ mail.op = NOTE_ON
               THEN [asked EXCEPT ![mail.ch] = NoNote] ELSE asked
  BY DEF Reset, HostReset
<1>2. QED
  BY <1>1 DEF Starting, TypeOK, HostTypeOK

LEMMA NoteReset ==
  ASSUME NoteInv, Reset
  PROVE  (NoteIntact /\ NoteUnderWay)'
<1>1. TypeOK
  BY DEF NoteInv, PaceInv
<1>2. ~mail'.pending
  BY DEF Reset, HostReset, NoMail
<1>3. \A c \in Chan : ~Starting(c)'
  BY <1>2 DEF Starting
<1>4. \A c \in Chan : \A o \in HostParam : ram'[c][o] = ram[c][o]
  <2>1. CASE UNCHANGED ram
    BY <2>1
  <2>2. CASE ustep < TOTAL_STEPS
             /\ \E n \in 1..4 : ram' = [ram EXCEPT ![uch] = Torn(@, n)]
    <3>1. uch \in Chan
      BY <1>1, <2>2, UchType DEF TypeOK, HostTypeOK
    <3>2. \A o \in HostParam : \A n \in 1..4 : Torn(ram[uch], n)[o] = ram[uch][o]
      BY <1>1, <3>1, PassKeepsParams DEF TypeOK
    <3>3. QED
      BY <1>1, <2>2, <3>1, <3>2 DEF TypeOK
  <2>3. QED
    BY <2>1, <2>2 DEF Reset
<1>5. \A c \in Chan : asked'[c] # NoNote => asked'[c] = asked[c] /\ ~Starting(c)
  BY <1>1, ResetAsked
<1>6. QED
  BY <1>3, <1>4, <1>5 DEF NoteInv, NoteIntact, NoteUnderWay

LEMMA NoteInit == Init => NoteInv
<1> SUFFICES ASSUME Init PROVE NoteInv
  OBVIOUS
<1>1. PaceInv
  BY PaceInit
<1>2. \A c \in Chan : asked[c] = NoNote /\ ~Starting(c)
  BY DEF Init, HostInit, Starting, NoMail
<1>3. QED
  BY <1>1, <1>2 DEF NoteInv, NoteIntact, NoteUnderWay

LEMMA NoteNext == NoteInv /\ [Next]_vars => NoteInv'
<1>1. ASSUME NoteInv, [Next]_vars PROVE PaceInv'
  BY <1>1, PaceNext DEF NoteInv
<1>2. ASSUME NoteInv, Clock PROVE (NoteIntact /\ NoteUnderWay)'
  <2>1. PICK reg \in Reg : \E v \in Input(reg) : DataWrite(reg, v)
    BY <1>2 DEF Clock
  <2>2. PICK v \in Input(reg) : DataWrite(reg, v)
    BY <2>1
  <2>3. CASE SampleStart \/ MicroStep \/ IdleStep
    BY <1>2, <2>2, <2>3, NoteRun
  <2>4. CASE MailStep
    BY <1>2, <2>2, <2>4, NoteServe, NoteServeOff
  <2>5. QED
    BY <1>2, <2>3, <2>4 DEF Clock
<1>3. ASSUME NoteInv, UNCHANGED vars PROVE (NoteIntact /\ NoteUnderWay)'
  BY <1>3 DEF vars, timevars, hostvars, NoteInv, NoteIntact, NoteUnderWay, Starting, Done
<1>4. QED
  BY <1>1, <1>2, <1>3, NoteReset DEF Next, NoteInv

\* rtl/wt_ram.v:428-531: the strengthening of NoteIntact is an invariant.
THEOREM SynthNoteInv == Spec => []NoteInv
<1>1. QED
  BY NoteInit, NoteNext, PTL DEF Spec

\* rtl/wt_ram.v:446-519: a started channel holds the parameters the host had
\* written when it asked for the note, for every number of channels.
THEOREM SynthNoteIntact == Spec => []NoteIntact
<1>1. NoteInv => NoteIntact
  BY DEF NoteInv
<1>2. QED
  BY <1>1, SynthNoteInv, PTL
-----------------------------------------------------------------------------
\* What EnvelopeSane asks of a record, and in addition a level that fits.
LevelSane(r) ==
  /\ r[O_ENV_STATE] \in OFF..RELEASE
  /\ r[O_LEVEL] <= LEVEL_MAX
  /\ r[O_ENV_STATE] = SUSTAIN => r[O_LEVEL] = LEVEL_MAX
  /\ r[O_ENV_STATE] = OFF => r[O_LEVEL] = 0
CountSane(r) == r[O_ENV_CNT] <= r[O_ENV_RATE] \/ r[O_ENV_CNT] = 1

\* Channel c has had its pass in this sample, and what is left of the sample
\* is enough for the command under way.
Past(c) ==
  /\ ustep > c * STEPS_PER_CH + PASS_STEP
  /\ (TOTAL_STEPS - ustep) + Need <= sample_cnt

EnvSettled == \A c \in Chan :
  asked[c] # NoNote /\ ~Starting(c) => LevelSane(ram[c]) /\ CountSane(ram[c])

\* A note_on clears the level, sets the state, clears the counter, and writes
\* the rate last; at most one pass falls in between.
EnvUnderWay == \A c \in Chan : Starting(c) =>
  /\ mail.phase >= 5 => ram[c][O_LEVEL] <= LEVEL_MAX
  /\ mail.phase >= 6 => LevelSane(ram[c])
  /\ mail.phase >= 7 => \/ ram[c][O_ENV_CNT] = 0
                        \/ ram[c][O_ENV_CNT] = 1 /\ Past(c)

EnvInv == PaceInv /\ EnvSettled /\ EnvUnderWay
-----------------------------------------------------------------------------
LEMMA EnvNumbers ==
  /\ OFF = 0 /\ ATTACK = 1 /\ SUSTAIN = 2 /\ RELEASE = 3
  /\ O_LEVEL = 4 /\ O_ENV_STATE = 5 /\ O_ENV_CNT = 6 /\ O_ENV_RATE = 10
  /\ {O_LEVEL, O_ENV_STATE, O_ENV_CNT, O_ENV_RATE} \subseteq Offset
  BY DEF OFF, ATTACK, SUSTAIN, RELEASE, O_LEVEL, O_ENV_STATE, O_ENV_CNT, O_ENV_RATE,
         Offset

\* The envelope of a record after one sample.
LEMMA PassRecord ==
  ASSUME NEW r \in [Offset -> Byte]
  PROVE  /\ Pass(r)[O_ENV_STATE] = NextState(r)
         /\ Pass(r)[O_LEVEL] = NextLevel(r)
         /\ Pass(r)[O_ENV_CNT] = NextCnt(r)
         /\ Pass(r)[O_ENV_RATE] = r[O_ENV_RATE]
  BY EnvNumbers DEF Pass, O_PHASE_LO, O_PHASE_HI

LEMMA PassLevel ==
  ASSUME NEW r \in [Offset -> Byte]
  PROVE  NextLevel(r) \in 0..LEVEL_MAX
<1>1. r[O_LEVEL] \in Nat
  BY EnvNumbers, Sizes DEF Byte
<1>2. EnvLevel(r) \in 0..LEVEL_MAX
  BY <1>1, Sizes DEF EnvLevel
<1>3. QED
  BY <1>2, Sizes DEF NextLevel

\* The state moves on only when the level has reached its end.
LEMMA PassState ==
  ASSUME NEW r \in [Offset -> Byte], LevelSane(r)
  PROVE  /\ NextState(r) \in OFF..RELEASE
         /\ NextState(r) = SUSTAIN => r[O_LEVEL] = LEVEL_MAX /\ NextLevel(r) = LEVEL_MAX
         /\ NextState(r) = OFF => r[O_LEVEL] = 0 /\ NextLevel(r) = 0
<1>1. \A m \in Nat \ {0} : \A x \in 0..(m - 1) : x % m = x
  OBVIOUS
<1>2. r[O_LEVEL] \in 0..LEVEL_MAX /\ r[O_ENV_STATE] \in 0..3
  BY EnvNumbers, Sizes DEF Byte, LevelSane
<1>3. EnvLevel(r) = r[O_LEVEL]
  <2>1. LEVEL_MAX + 1 \in Nat \ {0} /\ r[O_LEVEL] \in 0..((LEVEL_MAX + 1) - 1)
    BY <1>2, Sizes
  <2>2. QED
    BY <1>1, <2>1 DEF EnvLevel
<1>4. EnvState(r) = r[O_ENV_STATE]
  <2>1. 8 \in Nat \ {0} /\ r[O_ENV_STATE] \in 0..(8 - 1)
    BY <1>2
  <2>2. QED
    BY <1>1, <2>1 DEF EnvState
<1>5. QED
  BY <1>2, <1>3, <1>4, EnvNumbers, Sizes DEF LevelSane, NextState, NextLevel

LEMMA PassCount ==
  ASSUME NEW r \in [Offset -> Byte]
  PROVE  /\ CountSane(r) => CountSane(Pass(r))
         /\ r[O_ENV_CNT] = 0 => NextCnt(r) \in {0, 1}
<1>1. r[O_ENV_CNT] \in Nat /\ r[O_ENV_RATE] \in Nat
  BY EnvNumbers, Sizes DEF Byte
<1>2. \/ NextCnt(r) = 0
      \/ NextCnt(r) = r[O_ENV_CNT]
      \/ NextCnt(r) = r[O_ENV_CNT] + 1 /\ ~(r[O_ENV_CNT] >= r[O_ENV_RATE])
  BY DEF NextCnt, EnvFires
<1>3. r[O_ENV_CNT] = 0 => NextCnt(r) \in {0, 1}
  BY DEF NextCnt
<1>4. QED
  BY <1>1, <1>2, <1>3, PassRecord DEF CountSane

LEMMA PassSane ==
  ASSUME NEW r \in [Offset -> Byte], LevelSane(r)
  PROVE  LevelSane(Pass(r))
<1>1. NextLevel(r) <= LEVEL_MAX
  BY PassLevel, Sizes
<1>2. QED
  BY <1>1, PassState, PassRecord DEF LevelSane

\* A reset in the middle of a pass cuts between state and level, or between
\* level and counter.
LEMMA TornSane ==
  ASSUME NEW r \in [Offset -> Byte], LevelSane(r), CountSane(r), NEW n \in 1..4
  PROVE  LevelSane(Torn(r, n)) /\ CountSane(Torn(r, n))
<1> DEFINE t == Torn(r, n)
<1>1. O_ENV_CNT \notin Written(n) /\ O_ENV_RATE \notin Written(n)
  BY EnvNumbers DEF Written, O_PHASE_LO, O_PHASE_HI
<1>2. t[O_ENV_CNT] = r[O_ENV_CNT] /\ t[O_ENV_RATE] = r[O_ENV_RATE]
  BY <1>1, EnvNumbers DEF Torn
<1>3. O_LEVEL \in Written(n) => O_ENV_STATE \in Written(n)
  BY EnvNumbers DEF Written, O_PHASE_LO, O_PHASE_HI
<1>4. \/ t[O_ENV_STATE] = r[O_ENV_STATE] /\ t[O_LEVEL] = r[O_LEVEL]
      \/ t[O_ENV_STATE] = NextState(r) /\ t[O_LEVEL] = r[O_LEVEL]
      \/ t[O_ENV_STATE] = NextState(r) /\ t[O_LEVEL] = NextLevel(r)
  BY <1>3, EnvNumbers, PassRecord DEF Torn
<1>5. NextLevel(r) <= LEVEL_MAX
  BY PassLevel, Sizes
<1> HIDE DEF t
<1>6. LevelSane(t)
  BY <1>4, <1>5, PassState DEF LevelSane
<1>7. CountSane(t)
  BY <1>2 DEF CountSane
<1>8. QED
  BY <1>6, <1>7 DEF t
-----------------------------------------------------------------------------
\* A clock of the microprogram passes one channel or none.
LEMMA RunRecords ==
  ASSUME TypeOK, SampleStart \/ MicroStep \/ IdleStep
  PROVE  \/ ram' = ram
         \/ /\ MicroStep /\ uch \in Chan /\ ustep = uch * STEPS_PER_CH + PASS_STEP
            /\ ram' = [ram EXCEPT ![uch] = Pass(@)]
<1>1. CASE MicroStep /\ ums = PASS_STEP
  <2>1. ustep \in Nat /\ STEPS_PER_CH \in Nat \ {0}
    BY Sizes DEF TypeOK, HostTypeOK
  <2>2. \A x \in Nat : \A y \in Nat \ {0} : x = (x \div y) * y + (x % y)
    OBVIOUS
  <2>3. ustep = uch * STEPS_PER_CH + PASS_STEP
    BY <1>1, <2>1, <2>2 DEF uch, ums
  <2>4. uch \in Chan
    BY <1>1, UchType DEF MicroStep, TypeOK, HostTypeOK
  <2>5. QED
    BY <1>1, <2>3, <2>4 DEF MicroStep
<1>2. CASE ~(MicroStep /\ ums = PASS_STEP)
  BY <1>2 DEF SampleStart, MicroStep, IdleStep
<1>3. QED
  BY <1>1, <1>2

\* A channel that has had its pass has no other before the command is done.
LEMMA PastRun ==
  ASSUME PaceInv, Tick, SampleStart \/ MicroStep, mail' = mail,
         NEW c \in Chan, Past(c)
  PROVE  Past(c)'
<1>1. Need' = Need
  BY DEF Need
<1>2. CASE SampleStart
  BY <1>2, PaceNumbers, Sizes DEF SampleStart, sample_start, Past, PaceInv
<1>3. CASE MicroStep
  <2>1. ustep' = ustep + 1 /\ sample_cnt' = sample_cnt - 1
    BY <1>3 DEF MicroStep, Tick, sample_start
  <2>2. c * STEPS_PER_CH + PASS_STEP \in Nat
    BY Sizes, SynthAssumption DEF Chan
  <2> DEFINE due == c * STEPS_PER_CH + PASS_STEP
  <2> HIDE DEF due
  <2>3. ustep > due /\ (TOTAL_STEPS - ustep) + Need <= sample_cnt
    BY DEF Past, due
  <2>4. due \in Nat
    BY <2>2 DEF due
  <2>5. ustep' > due /\ (TOTAL_STEPS - ustep') + Need' <= sample_cnt'
    BY <1>1, <2>1, <2>3, <2>4, PaceNumbers, Sizes DEF PaceInv
  <2>6. QED
    BY <2>5 DEF Past, due
<1>4. QED
  BY <1>2, <1>3

LEMMA PastPass ==
  ASSUME PaceInv, Tick, MicroStep, mail' = mail,
         NEW c \in Chan, ustep = c * STEPS_PER_CH + PASS_STEP
  PROVE  ~Past(c) /\ Past(c)'
<1>1. ustep' = ustep + 1 /\ sample_cnt' = sample_cnt - 1 /\ Need' = Need
  BY DEF MicroStep, Tick, sample_start, Need
<1>2. ustep + sample_cnt = SAMPLE_DIV - 1 /\ ustep < TOTAL_STEPS
  BY DEF MicroStep, PaceInv, InStep
<1>3. (TOTAL_STEPS - ustep') + Need' <= sample_cnt'
  BY <1>1, <1>2, PaceNumbers, Sizes DEF PaceInv
<1>4. ustep' > ustep /\ ~ ustep > ustep
  BY <1>1, PaceNumbers DEF PaceInv
<1>5. QED
  BY <1>3, <1>4 DEF Past

\* A clock in which the mailbox is not served.
LEMMA EnvRun ==
  ASSUME EnvInv, Tick, NEW reg \in Reg, NEW v \in Input(reg), DataWrite(reg, v),
         SampleStart \/ MicroStep \/ IdleStep
  PROVE  (EnvSettled /\ EnvUnderWay)'
<1>1. /\ ram \in [Chan -> [Offset -> Byte]] /\ mail.phase \in 0..9
      /\ mail.pending \in BOOLEAN /\ host_ch \in Chan
      /\ mail \in [pending: BOOLEAN, op: 0..2, ch: Chan, phase: 0..9]
      /\ asked \in [Chan -> [HostParam -> 0..BYTE]]
  BY DEF EnvInv, PaceInv, TypeOK, HostTypeOK
<1>2. mail' = Posted(reg)
  BY Sizes DEF DataWrite, Served, SampleStart, MicroStep, IdleStep, idle, sample_start
<1>3. \A c \in Chan : ram'[c] = ram[c] \/ ram'[c] = Pass(ram[c])
  BY <1>1, RunRecords DEF EnvInv, PaceInv
<1>4. \A c \in Chan : LevelSane(ram[c]) => LevelSane(ram'[c])
  BY <1>1, <1>3, PassSane
<1>5. \A c \in Chan : CountSane(ram[c]) => CountSane(ram'[c])
  BY <1>1, <1>3, PassCount
<1>6. \A c \in Chan : ram[c][O_LEVEL] <= LEVEL_MAX => ram'[c][O_LEVEL] <= LEVEL_MAX
  BY <1>1, <1>3, PassRecord, PassLevel, Sizes
<1>7. CASE mail.pending
  <2>1. mail' = mail /\ asked' = asked
    BY <1>2, <1>7, WaitingHost DEF EnvInv
  <2>2. \A c \in Chan : Starting(c)' = Starting(c)
    BY <2>1 DEF Starting
  <2>3. SampleStart \/ MicroStep
    BY <1>7 DEF IdleStep
  <2>4. EnvSettled'
    BY <1>4, <1>5, <2>1, <2>2 DEF EnvInv, EnvSettled
  <2>5. ASSUME NEW c \in Chan, Starting(c), mail.phase >= 7
        PROVE  ram'[c][O_ENV_CNT] = 0 \/ (ram'[c][O_ENV_CNT] = 1 /\ Past(c)')
    <3>1. ram[c][O_ENV_CNT] = 0 \/ (ram[c][O_ENV_CNT] = 1 /\ Past(c))
      BY <2>5 DEF EnvInv, EnvUnderWay
    <3>2. CASE ram'[c] = ram[c]
      <4>1. Past(c) => Past(c)'
        BY <2>1, <2>3, PastRun DEF EnvInv
      <4>2. QED
        BY <3>1, <3>2, <4>1
    <3>3. CASE ram'[c] # ram[c]
      <4>1. MicroStep /\ ustep = c * STEPS_PER_CH + PASS_STEP /\ ram'[c] = Pass(ram[c])
        BY <1>1, <3>3, RunRecords DEF EnvInv, PaceInv
      <4>2. ~Past(c) /\ Past(c)'
        BY <2>1, <4>1, PastPass DEF EnvInv
      <4>3. ram'[c][O_ENV_CNT] \in {0, 1}
        BY <1>1, <3>1, <4>1, <4>2, PassCount, PassRecord
      <4>4. QED
        BY <4>2, <4>3
    <3>4. QED
      BY <3>2, <3>3
  <2>6. EnvUnderWay'
    BY <1>4, <1>6, <2>1, <2>2, <2>5 DEF EnvInv, EnvUnderWay
  <2>7. QED
    BY <2>4, <2>6
<1>8. CASE ~mail.pending
  <2>1. CASE reg = R_NOTE_ON
    <3>1. mail' = [pending |-> TRUE, op |-> NOTE_ON, ch |-> host_ch, phase |-> 0]
      BY <1>2, <2>1 DEF Posted, R_NOTE_ON, R_NOTE_OFF
    <3>2. asked' = [asked EXCEPT ![host_ch] = host[host_ch]]
      BY <2>1 DEF DataWrite
    <3>3. \A c \in Chan : Starting(c)' <=> c = host_ch
      BY <3>1 DEF Starting
    <3>4. \A c \in Chan : ~Starting(c)' => asked'[c] = asked[c]
      BY <1>1, <3>2, <3>3
    <3>5. EnvSettled'
      BY <1>4, <1>5, <1>8, <3>4 DEF EnvInv, EnvSettled, Starting
    <3>6. EnvUnderWay'
      BY <3>1 DEF EnvUnderWay
    <3>7. QED
      BY <3>5, <3>6
  <2>2. CASE reg # R_NOTE_ON
    <3>1. asked' = asked
      BY <2>2 DEF DataWrite
    <3>2. mail'.pending = FALSE \/ mail'.op = NOTE_OFF
      BY <1>1, <1>2, <1>8, <2>2 DEF Posted
    <3>3. \A c \in Chan : ~Starting(c)'
      BY <3>2 DEF Starting, NOTE_ON, NOTE_OFF
    <3>4. QED
      BY <1>4, <1>5, <1>8, <3>1, <3>3 DEF EnvInv, EnvSettled, EnvUnderWay, Starting
  <2>3. QED
    BY <2>1, <2>2
<1>9. QED
  BY <1>1, <1>7, <1>8

\* A clock that serves a note_on.
LEMMA EnvServe ==
  ASSUME EnvInv, Tick, NEW reg \in Reg, NEW v \in Input(reg), DataWrite(reg, v),
         MailStep, mail.op = NOTE_ON
  PROVE  (EnvSettled /\ EnvUnderWay)'
<1> DEFINE ch == mail.ch
           p  == mail.phase
           o  == NoteOffset(p)
           r  == ram[ch]
           s  == ram'[ch]
<1>1. /\ ram \in [Chan -> [Offset -> Byte]] /\ ch \in Chan /\ p \in 0..9
      /\ mail \in [pending: BOOLEAN, op: 0..2, ch: Chan, phase: 0..9]
  BY DEF EnvInv, PaceInv, TypeOK, HostTypeOK
<1>2. asked' = asked /\ Posted(reg) = mail
  BY WaitingHost DEF EnvInv, MailStep
<1>3. ram' = [ram EXCEPT ![ch][o] = NoteByte(p, ch)]
  BY DEF MailStep, Serve
<1>4. \A c \in Chan \ {ch} : ram'[c] = ram[c] /\ ~Starting(c)
  BY <1>1, <1>3 DEF Starting
<1>5. \A q \in Offset : s[q] = IF q = o THEN NoteByte(p, ch) ELSE r[q]
  BY <1>1, <1>3, ByteFacts
<1>6. o = IF p < 8 THEN p ELSE p + 1
  BY DEF NoteOffset
<1>7. NoteByte(4, ch) = 0 /\ NoteByte(5, ch) = ATTACK /\ NoteByte(6, ch) = 0
  BY EnvNumbers DEF NoteByte, NoteOffset, HostParam, O_STEP_LO, O_STEP_HI, O_VOL,
     O_WAVE_IDX, O_ENV_RATE
<1>8. /\ p >= 5 => r[O_LEVEL] <= LEVEL_MAX
      /\ p >= 6 => LevelSane(r)
      /\ p >= 7 => r[O_ENV_CNT] = 0 \/ (r[O_ENV_CNT] = 1 /\ Past(ch))
  <2>1. Starting(ch)
    BY DEF Starting, MailStep
  <2>2. QED
    BY <1>1, <2>1 DEF EnvInv, EnvUnderWay
<1> HIDE DEF o, r, s, p, ch
<1>9. p >= 4 => s[O_LEVEL] <= LEVEL_MAX
  BY <1>1, <1>5, <1>6, <1>7, <1>8, EnvNumbers, Sizes
<1>10. p >= 5 => LevelSane(s)
  <2>1. CASE p = 5
    BY <1>5, <1>6, <1>7, <1>9, <2>1, EnvNumbers DEF LevelSane
  <2>2. CASE p >= 6
    BY <1>1, <1>5, <1>6, <1>8, <2>2, EnvNumbers DEF LevelSane
  <2>3. QED
    BY <1>1, <2>1, <2>2
<1>11. p >= 6 => s[O_ENV_CNT] = 0 \/ (s[O_ENV_CNT] = 1 /\ p >= 7 /\ Past(ch))
  BY <1>1, <1>5, <1>6, <1>7, <1>8, EnvNumbers
<1>12. CASE p < 9
  <2>1. mail' = [mail EXCEPT !.phase = mail.phase + 1]
    BY <1>2, <1>12 DEF DataWrite, Served, MailStep, p
  <2>2. mail'.phase = p + 1 /\ \A c \in Chan : Starting(c)' = Starting(c)
    BY <1>1, <2>1 DEF Starting, p
  <2>3. Past(ch) => (\A c \in Chan : c = ch => Past(c)')
    <3>1. ustep = TOTAL_STEPS /\ ustep' = TOTAL_STEPS /\ sample_cnt' = sample_cnt - 1
      BY Sizes DEF MailStep, idle, Tick
    <3>2. Need' = Need - 1
      BY <1>1, <2>1 DEF Need, p
    <3>3. QED
      BY <3>1, <3>2, PaceNumbers, Sizes DEF Past, EnvInv, PaceInv
  <2>4. \A c \in Chan : Starting(c) => c = ch
    BY DEF Starting, ch
  <2>5. EnvUnderWay'
    BY <1>1, <1>9, <1>10, <1>11, <2>2, <2>3, <2>4 DEF EnvUnderWay, s
  <2>6. EnvSettled'
    BY <1>2, <1>4, <2>2, <2>4 DEF EnvSettled, EnvInv, Starting, MailStep, ch
  <2>7. QED
    BY <2>5, <2>6
<1>13. CASE p = 9
  <2>1. mail' = [mail EXCEPT !.pending = FALSE]
    BY <1>2, <1>13 DEF DataWrite, Served, MailStep, p
  <2>2. \A c \in Chan : ~Starting(c)'
    BY <1>1, <2>1 DEF Starting
  <2>3. LevelSane(s)
    BY <1>10, <1>13
  <2>4. CountSane(s)
    <3>1. s[O_ENV_RATE] \in Byte
      BY <1>1, <1>3, ServeType, EnvNumbers DEF EnvInv, PaceInv, MailStep, s
    <3>2. QED
      BY <1>11, <1>13, <3>1 DEF CountSane, Byte
  <2>5. EnvSettled'
    BY <1>2, <1>4, <2>3, <2>4 DEF EnvSettled, EnvInv, s
  <2>6. QED
    BY <2>2, <2>5 DEF EnvUnderWay
<1>14. QED
  BY <1>1, <1>12, <1>13

\* A clock that serves a note_off.
LEMMA EnvServeOff ==
  ASSUME EnvInv, NEW reg \in Reg, NEW v \in Input(reg), DataWrite(reg, v),
         MailStep, mail.op # NOTE_ON
  PROVE  (EnvSettled /\ EnvUnderWay)'
<1>1. /\ ram \in [Chan -> [Offset -> Byte]] /\ mail.ch \in Chan
      /\ mail \in [pending: BOOLEAN, op: 0..2, ch: Chan, phase: 0..9]
  BY DEF EnvInv, PaceInv, TypeOK, HostTypeOK
<1>2. asked' = asked /\ Posted(reg) = mail
  BY WaitingHost DEF EnvInv, MailStep
<1>3. mail' = [mail EXCEPT !.pending = FALSE]
  BY <1>2 DEF DataWrite, Served, MailStep
<1>4. \A c \in Chan : ~Starting(c)' /\ ~Starting(c)
  BY <1>1, <1>3 DEF Starting
<1>5. ram' = [ram EXCEPT ![mail.ch][O_ENV_STATE] = RELEASE]
  BY DEF MailStep, Serve
<1>6. \A c \in Chan :
        /\ \A q \in Offset \ {O_ENV_STATE} : ram'[c][q] = ram[c][q]
        /\ ram'[c][O_ENV_STATE] \in {ram[c][O_ENV_STATE], RELEASE}
  BY <1>1, <1>5, EnvNumbers
<1>7. \A c \in Chan : LevelSane(ram[c]) => LevelSane(ram'[c])
  BY <1>6, EnvNumbers DEF LevelSane
<1>8. \A c \in Chan : CountSane(ram[c]) => CountSane(ram'[c])
  BY <1>6, EnvNumbers DEF CountSane
<1>9. QED
  BY <1>2, <1>4, <1>7, <1>8 DEF EnvInv, EnvSettled, EnvUnderWay

LEMMA EnvReset ==
  ASSUME EnvInv, Reset
  PROVE  (EnvSettled /\ EnvUnderWay)'
<1>1. TypeOK
  BY DEF EnvInv, PaceInv
<1>2. \A c \in Chan : ~Starting(c)'
  BY DEF Reset, HostReset, NoMail, Starting
<1>3. \A c \in Chan : ram'[c] = ram[c] \/ \E n \in 1..4 : ram'[c] = Torn(ram[c], n)
  BY <1>1 DEF Reset, TypeOK
<1>4. \A c \in Chan : LevelSane(ram[c]) /\ CountSane(ram[c])
                       => LevelSane(ram'[c]) /\ CountSane(ram'[c])
  BY <1>1, <1>3, TornSane DEF TypeOK
<1>5. \A c \in Chan : asked'[c] # NoNote => asked'[c] = asked[c] /\ ~Starting(c)
  BY <1>1, ResetAsked
<1>6. QED
  BY <1>2, <1>4, <1>5 DEF EnvInv, EnvSettled, EnvUnderWay

LEMMA EnvInit == Init => EnvInv
<1> SUFFICES ASSUME Init PROVE EnvInv
  OBVIOUS
<1>1. PaceInv
  BY PaceInit
<1>2. \A c \in Chan : asked[c] = NoNote /\ ~Starting(c)
  BY DEF Init, HostInit, Starting, NoMail
<1>3. QED
  BY <1>1, <1>2 DEF EnvInv, EnvSettled, EnvUnderWay

LEMMA EnvNext == EnvInv /\ [Next]_vars => EnvInv'
<1>1. ASSUME EnvInv, [Next]_vars PROVE PaceInv'
  BY <1>1, PaceNext DEF EnvInv
<1>2. ASSUME EnvInv, Clock PROVE (EnvSettled /\ EnvUnderWay)'
  <2>1. PICK reg \in Reg : \E v \in Input(reg) : DataWrite(reg, v)
    BY <1>2 DEF Clock
  <2>2. PICK v \in Input(reg) : DataWrite(reg, v)
    BY <2>1
  <2>3. Tick
    BY <1>2 DEF Clock
  <2>4. CASE SampleStart \/ MicroStep \/ IdleStep
    BY <1>2, <2>2, <2>3, <2>4, EnvRun
  <2>5. CASE MailStep
    BY <1>2, <2>2, <2>3, <2>5, EnvServe, EnvServeOff
  <2>6. QED
    BY <1>2, <2>4, <2>5 DEF Clock
<1>3. ASSUME EnvInv, UNCHANGED vars PROVE (EnvSettled /\ EnvUnderWay)'
  BY <1>3 DEF vars, timevars, hostvars, EnvInv, EnvSettled, EnvUnderWay, Starting, Past,
     Need
<1>4. QED
  BY <1>1, <1>2, <1>3, EnvReset DEF Next, EnvInv

\* rtl/wt_ram.v:357-400, 468-531: the strengthening of EnvelopeSane is an invariant.
THEOREM SynthEnvInv == Spec => []EnvInv
<1>1. QED
  BY EnvInit, EnvNext, PTL DEF Spec

\* rtl/wt_ram.v:357-400: whatever RAM held at power-on, and wherever a reset cuts
\* into a pass, the envelope of a started channel stays sane.
THEOREM SynthEnvelopeSane == Spec => []EnvelopeSane
<1>1. EnvInv => EnvelopeSane
  BY DEF EnvInv, EnvSettled, EnvelopeSane, LevelSane, CountSane
<1>2. QED
  BY <1>1, SynthEnvInv, PTL
-----------------------------------------------------------------------------
\* From phase 6 on, a note_on has put the state where no pass turns it off.
ActiveUnderWay ==
  \A c \in Chan : Starting(c) /\ mail.phase >= 6 =>
                    ram[c][O_ENV_STATE] \in {ATTACK, SUSTAIN}

ActiveInv == PaceInv /\ ActiveTrue /\ ActiveUnderWay
-----------------------------------------------------------------------------
\* The state that a pass writes back is the one it has computed, and an attack
\* ends in the sustain.
LEMMA PassActive ==
  ASSUME NEW r \in [Offset -> Byte]
  PROVE  /\ EnvState(Pass(r)) = NextState(r)
         /\ r[O_ENV_STATE] \in {ATTACK, SUSTAIN} =>
              Pass(r)[O_ENV_STATE] \in {ATTACK, SUSTAIN}
<1>1. \A x \in Nat : x % 8 \in 0..7 /\ (x \in 0..7 => x % 8 = x)
  OBVIOUS
<1>2. r[O_ENV_STATE] \in Nat
  BY EnvNumbers, Sizes DEF Byte
<1>3. EnvState(r) \in 0..7 /\ (r[O_ENV_STATE] \in 0..7 => EnvState(r) = r[O_ENV_STATE])
  BY <1>1, <1>2 DEF EnvState
<1>4. \/ NextState(r) = EnvState(r)
      \/ NextState(r) = SUSTAIN
      \/ NextState(r) = OFF /\ EnvState(r) = RELEASE
  BY DEF NextState
<1>5. NextState(r) \in 0..7
  BY <1>3, <1>4, EnvNumbers
<1>6. EnvState(Pass(r)) = NextState(r)
  BY <1>1, <1>5, PassRecord DEF EnvState
<1>7. r[O_ENV_STATE] \in {ATTACK, SUSTAIN} => NextState(r) \in {ATTACK, SUSTAIN}
  BY <1>3, <1>4, EnvNumbers
<1>8. QED
  BY <1>6, <1>7, PassRecord

\* A clock in which the mailbox is not served.
LEMMA ActiveRun ==
  ASSUME ActiveInv, NEW reg \in Reg, NEW v \in Input(reg), DataWrite(reg, v),
         SampleStart \/ MicroStep \/ IdleStep
  PROVE  (ActiveTrue /\ ActiveUnderWay)'
<1>1. /\ TypeOK /\ ram \in [Chan -> [Offset -> Byte]] /\ ch_active \in [Chan -> BOOLEAN]
      /\ mail \in [pending: BOOLEAN, op: 0..2, ch: Chan, phase: 0..9]
  BY DEF ActiveInv, PaceInv, TypeOK, HostTypeOK
<1>2. mail' = Posted(reg)
  BY Sizes DEF DataWrite, Served, SampleStart, MicroStep, IdleStep, idle, sample_start
<1>3. \A c \in Chan : ram'[c] = ram[c] \/ ram'[c] = Pass(ram[c])
  BY <1>1, RunRecords
<1>4. ActiveTrue'
  <2>1. CASE MicroStep /\ ums = PASS_STEP
    <3>1. uch \in Chan
      BY <1>1, <2>1, UchType DEF MicroStep, TypeOK, HostTypeOK
    <3>2. /\ ram' = [ram EXCEPT ![uch] = Pass(@)]
          /\ ch_active' = [ch_active EXCEPT ![uch] = NextState(ram[uch]) # OFF]
      BY <2>1 DEF MicroStep
    <3>3. EnvState(ram'[uch]) = NextState(ram[uch])
      BY <1>1, <3>1, <3>2, PassActive
    <3>4. ASSUME NEW c \in Chan, ch_active'[c] PROVE EnvState(ram'[c]) # OFF
      <4>1. CASE c = uch
        BY <1>1, <3>1, <3>2, <3>3, <3>4, <4>1
      <4>2. CASE c # uch
        BY <1>1, <3>1, <3>2, <3>4, <4>2 DEF ActiveInv, ActiveTrue
      <4>3. QED
        BY <4>1, <4>2
    <3>5. QED
      BY <3>4 DEF ActiveTrue, EnvState
  <2>2. CASE ~(MicroStep /\ ums = PASS_STEP)
    <3>1. ram' = ram /\ ch_active' = ch_active
      BY <2>2 DEF SampleStart, MicroStep, IdleStep
    <3>2. QED
      BY <3>1 DEF ActiveInv, ActiveTrue, EnvState
  <2>3. QED
    BY <2>1, <2>2
<1>5. ActiveUnderWay'
  <2>1. CASE mail.pending
    <3>1. mail' = mail
      BY <1>2, <2>1, WaitingHost DEF ActiveInv
    <3>2. QED
      BY <1>1, <1>3, <3>1, PassActive DEF ActiveInv, ActiveUnderWay, Starting
  <2>2. CASE ~mail.pending
    <3>1. \/ mail'.pending = FALSE \/ mail'.op = NOTE_OFF \/ mail'.phase = 0
      BY <1>1, <1>2, <2>2 DEF Posted
    <3>2. QED
      BY <3>1 DEF ActiveUnderWay, Starting, NOTE_ON, NOTE_OFF
  <2>3. QED
    BY <1>1, <2>1, <2>2
<1>6. QED
  BY <1>4, <1>5

\* A clock that serves a note_on.
LEMMA ActiveServe ==
  ASSUME ActiveInv, NEW reg \in Reg, NEW v \in Input(reg), DataWrite(reg, v),
         MailStep, mail.op = NOTE_ON
  PROVE  (ActiveTrue /\ ActiveUnderWay)'
<1> DEFINE ch == mail.ch
           p  == mail.phase
<1>1. /\ ram \in [Chan -> [Offset -> Byte]] /\ ch \in Chan /\ p \in 0..9
      /\ ch_active \in [Chan -> BOOLEAN]
      /\ mail \in [pending: BOOLEAN, op: 0..2, ch: Chan, phase: 0..9]
  BY DEF ActiveInv, PaceInv, TypeOK, HostTypeOK
<1>2. Posted(reg) = mail
  BY WaitingHost DEF ActiveInv, MailStep
<1>3. ram' = [ram EXCEPT ![ch][NoteOffset(p)] = NoteByte(p, ch)]
  BY DEF MailStep, Serve
<1>4. ch_active' = IF p = 9 THEN [ch_active EXCEPT ![ch] = TRUE] ELSE ch_active
  BY DEF MailStep
<1>5. NoteOffset(p) = O_ENV_STATE <=> p = 5
  BY <1>1, EnvNumbers DEF NoteOffset
<1>6. NoteByte(5, ch) = ATTACK
  BY EnvNumbers DEF NoteByte, NoteOffset, HostParam, O_STEP_LO, O_STEP_HI, O_VOL,
     O_WAVE_IDX, O_ENV_RATE
<1>7. \A c \in Chan : ram'[c][O_ENV_STATE] =
                        IF c = ch /\ p = 5 THEN ATTACK ELSE ram[c][O_ENV_STATE]
  <2>1. NoteOffset(p) \in Offset
    BY <1>1, ByteFacts
  <2>2. QED
    BY <1>1, <1>3, <1>5, <1>6, <2>1, EnvNumbers
<1>8. p >= 6 => ram[ch][O_ENV_STATE] \in {ATTACK, SUSTAIN}
  BY <1>1 DEF ActiveInv, ActiveUnderWay, Starting, MailStep
<1>9. p >= 5 => ram'[ch][O_ENV_STATE] \in {ATTACK, SUSTAIN}
  BY <1>1, <1>7, <1>8
<1>10. Starting(ch) /\ \A c \in Chan : Starting(c) => c = ch
  BY DEF Starting, MailStep
<1> HIDE DEF ch, p
<1>11. ActiveTrue'
  <2>1. ASSUME NEW c \in Chan, ch_active'[c] PROVE ram'[c][O_ENV_STATE] % 8 # OFF
    <3>1. CASE c = ch /\ p >= 5
      BY <1>9, <3>1, EnvNumbers
    <3>2. CASE ~(c = ch /\ p >= 5)
      <4>1. ch_active[c] /\ ram'[c][O_ENV_STATE] = ram[c][O_ENV_STATE]
        BY <1>1, <1>4, <1>7, <2>1, <3>2
      <4>2. QED
        BY <4>1 DEF ActiveInv, ActiveTrue, EnvState
    <3>3. QED
      BY <3>1, <3>2
  <2>2. QED
    BY <2>1 DEF ActiveTrue, EnvState
<1>12. ActiveUnderWay'
  <2>1. CASE p < 9
    <3>1. mail' = [mail EXCEPT !.phase = mail.phase + 1]
      BY <1>2, <2>1 DEF DataWrite, Served, MailStep, p
    <3>2. mail'.phase = p + 1 /\ \A c \in Chan : Starting(c)' = Starting(c)
      BY <1>1, <3>1 DEF Starting, p
    <3>3. QED
      BY <1>1, <1>9, <1>10, <3>2 DEF ActiveUnderWay
  <2>2. CASE p = 9
    <3>1. mail' = [mail EXCEPT !.pending = FALSE]
      BY <1>2, <2>2 DEF DataWrite, Served, MailStep, p
    <3>2. QED
      BY <1>1, <3>1 DEF ActiveUnderWay, Starting
  <2>3. QED
    BY <1>1, <2>1, <2>2
<1>13. QED
  BY <1>11, <1>12

\* A clock that serves a note_off, which leaves the activity bit to the next pass.
LEMMA ActiveServeOff ==
  ASSUME ActiveInv, NEW reg \in Reg, NEW v \in Input(reg), DataWrite(reg, v),
         MailStep, mail.op # NOTE_ON
  PROVE  (ActiveTrue /\ ActiveUnderWay)'
<1>1. /\ ram \in [Chan -> [Offset -> Byte]] /\ mail.ch \in Chan
      /\ mail \in [pending: BOOLEAN, op: 0..2, ch: Chan, phase: 0..9]
  BY DEF ActiveInv, PaceInv, TypeOK, HostTypeOK
<1>2. Posted(reg) = mail
  BY WaitingHost DEF ActiveInv, MailStep
<1>3. mail' = [mail EXCEPT !.pending = FALSE]
  BY <1>2 DEF DataWrite, Served, MailStep
<1>4. ram' = [ram EXCEPT ![mail.ch][O_ENV_STATE] = RELEASE] /\ ch_active' = ch_active
  BY DEF MailStep, Serve
<1>5. \A c \in Chan : ram'[c][O_ENV_STATE] \in {ram[c][O_ENV_STATE], RELEASE}
  BY <1>1, <1>4, EnvNumbers
<1>6. RELEASE % 8 # OFF
  BY EnvNumbers
<1>7. ActiveTrue'
  BY <1>4, <1>5, <1>6 DEF ActiveInv, ActiveTrue, EnvState
<1>8. ActiveUnderWay'
  BY <1>1, <1>3 DEF ActiveUnderWay, Starting
<1>9. QED
  BY <1>7, <1>8

LEMMA ActiveInit == Init => ActiveInv
<1> SUFFICES ASSUME Init PROVE ActiveInv
  OBVIOUS
<1>1. PaceInv
  BY PaceInit
<1>2. \A c \in Chan : ~ch_active[c] /\ ~Starting(c)
  BY DEF Init, HostInit, Starting, NoMail
<1>3. QED
  BY <1>1, <1>2 DEF ActiveInv, ActiveTrue, ActiveUnderWay

LEMMA ActiveNext == ActiveInv /\ [Next]_vars => ActiveInv'
<1>1. ASSUME ActiveInv, [Next]_vars PROVE PaceInv'
  BY <1>1, PaceNext DEF ActiveInv
<1>2. ASSUME ActiveInv, Clock PROVE (ActiveTrue /\ ActiveUnderWay)'
  <2>1. PICK reg \in Reg : \E v \in Input(reg) : DataWrite(reg, v)
    BY <1>2 DEF Clock
  <2>2. PICK v \in Input(reg) : DataWrite(reg, v)
    BY <2>1
  <2>3. CASE SampleStart \/ MicroStep \/ IdleStep
    BY <1>2, <2>2, <2>3, ActiveRun
  <2>4. CASE MailStep
    BY <1>2, <2>2, <2>4, ActiveServe, ActiveServeOff
  <2>5. QED
    BY <1>2, <2>3, <2>4 DEF Clock
<1>3. ASSUME Reset PROVE (ActiveTrue /\ ActiveUnderWay)'
  <2>1. \A c \in Chan : ~ch_active'[c] /\ ~Starting(c)'
    BY <1>3 DEF Reset, HostReset, NoMail, Starting
  <2>2. QED
    BY <2>1 DEF ActiveTrue, ActiveUnderWay
<1>4. ASSUME ActiveInv, UNCHANGED vars PROVE (ActiveTrue /\ ActiveUnderWay)'
  BY <1>4 DEF vars, timevars, hostvars, ActiveInv, ActiveTrue, ActiveUnderWay,
     Starting, EnvState
<1>5. QED
  BY <1>1, <1>2, <1>3, <1>4 DEF Next, ActiveInv

\* rtl/wt_ram.v:400-404, 474-531: the strengthening of ActiveTrue is an invariant.
THEOREM SynthActiveInv == Spec => []ActiveInv
<1>1. QED
  BY ActiveInit, ActiveNext, PTL DEF Spec

\* rtl/wt_ram.v:258-265, 400-404, 517: no channel that register 06 reports as
\* active is silent, for every number of channels and whatever the passes do to a
\* note that is half written.
THEOREM SynthActiveTrue == Spec => []ActiveTrue
<1>1. ActiveInv => ActiveTrue
  BY DEF ActiveInv
<1>2. QED
  BY <1>1, SynthActiveInv, PTL
=============================================================================
