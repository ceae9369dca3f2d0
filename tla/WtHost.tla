------------------------------- MODULE WtHost -------------------------------
(***************************************************************************)
(* The host-visible half of rtl/wt_ram.v: the shadow registers the host    *)
(* fills, and the one-entry mailbox (spfm_pending, spfm_op, spfm_ch,       *)
(* spfm_phase) that carries a note_on or note_off to the idle part of the  *)
(* sample period.  WtSynth and WtMicro share this half and the clock.      *)
(***************************************************************************)
EXTENDS Naturals

CONSTANTS
  CHANS,          \* channels (4)
  STEPS_PER_CH,   \* microprogram clocks per channel (32)
  SAMPLE_DIV,     \* clocks per sample (312)
  BYTE,           \* byte values are 0..BYTE-1 (256)
  LEVEL_MAX,      \* highest envelope level (15)
  Wait,           \* environment: clocks from one command to the next
  HostVal         \* environment: HostVal[reg], the bytes written to register reg

TOTAL_STEPS == CHANS * STEPS_PER_CH

ASSUME HostAssumption ==
  /\ CHANS \in Nat \ {0} /\ STEPS_PER_CH \in Nat \ {0}
  /\ SAMPLE_DIV \in Nat
  /\ BYTE \in Nat /\ BYTE >= 8              \* env_state has three bits
  /\ LEVEL_MAX \in Nat /\ LEVEL_MAX < BYTE
  /\ Wait \in Nat
  /\ HostVal \in [0..7 -> SUBSET (0..(BYTE - 1))]

Chan == 0..(CHANS - 1)
Byte == 0..(BYTE - 1)

\* RAM offsets of a channel record.
O_PHASE_LO  == 0
O_PHASE_HI  == 1
O_STEP_LO   == 2
O_STEP_HI   == 3
O_LEVEL     == 4
O_ENV_STATE == 5
O_ENV_CNT   == 6
O_VOL       == 7
O_DAC_OUT   == 8
O_WAVE_IDX  == 9
O_ENV_RATE  == 10

Offset    == 0..10
HostParam == {O_STEP_LO, O_STEP_HI, O_VOL, O_WAVE_IDX, O_ENV_RATE}

OFF     == 0
ATTACK  == 1
SUSTAIN == 2
RELEASE == 3

NOTE_ON  == 1
NOTE_OFF == 2

\* Register numbers of the data writes; NoReg is a clock without one, or with
\* an undecoded number.
R_CTRL     == 0
R_PARAM    == 1..5
R_NOTE_ON  == 6
R_NOTE_OFF == 7
NoReg      == 8
Reg        == 0..8

\* The record byte that each parameter register fills, and its width.
ParamOf(reg) ==
  CASE reg = 1 -> O_WAVE_IDX
    [] reg = 2 -> O_VOL
    [] reg = 3 -> O_ENV_RATE
    [] reg = 4 -> O_STEP_LO
    [] reg = 5 -> O_STEP_HI
Trim(reg, v) ==
  CASE reg = 1 -> v % 8
    [] reg = 2 -> v % 32
    [] OTHER   -> v

VARIABLES
  sample_cnt,   \* clocks left in this sample period
  ustep,        \* microprogram step; TOTAL_STEPS while idle
  host_ch,      \* channel the host has selected
  host,         \* host[c][o]: shadow of parameter o of channel c
  mail,         \* the mailbox
  quiet,        \* environment: clocks since the last command, up to Wait
  asked         \* history: parameters of the last note_on, or NoNote

timevars == <<sample_cnt, ustep>>
hostvars == <<host_ch, host, mail, quiet, asked>>

NoMail == [pending |-> FALSE, op |-> 0, ch |-> 0, phase |-> 0]
NoNote == [o \in HostParam |-> BYTE]
Zeros  == [o \in HostParam |-> 0]

HostTypeOK ==
  /\ sample_cnt \in 0..(SAMPLE_DIV - 1)
  /\ ustep \in 0..TOTAL_STEPS
  /\ host_ch \in Chan
  /\ host \in [Chan -> [HostParam -> Byte]]
  /\ mail \in [pending: BOOLEAN, op: 0..2, ch: Chan, phase: 0..9]
  /\ quiet \in 0..Wait
  /\ asked \in [Chan -> [HostParam -> 0..BYTE]]

HostInit ==
  /\ sample_cnt = SAMPLE_DIV - 1
  /\ ustep = TOTAL_STEPS
  /\ host_ch = 0
  /\ host = [c \in Chan |-> Zeros]
  /\ mail = NoMail
  /\ quiet = Wait
  /\ asked = [c \in Chan |-> NoNote]

sample_start == sample_cnt = 0
idle         == ~sample_start /\ ustep = TOTAL_STEPS
uch          == ustep \div STEPS_PER_CH
ums          == ustep % STEPS_PER_CH

Command(reg) == reg \in {R_NOTE_ON, R_NOTE_OFF}

\* The host keeps Wait clocks between commands, and until they have passed it
\* leaves the parameters of the channel it commanded alone.
Paced(reg) ==
  /\ Command(reg) => quiet = Wait
  /\ reg \in R_PARAM => quiet = Wait \/ host_ch # mail.ch

Input(reg) == IF reg = NoReg THEN {0} ELSE HostVal[reg]

\* Mutant of Posted: a note_on starts at the phase where the last one ended.
PostedKeepsPhase(reg) ==
  CASE Command(reg) -> [mail EXCEPT !.pending = TRUE, !.ch = host_ch,
                          !.op = IF reg = R_NOTE_ON THEN NOTE_ON ELSE NOTE_OFF]
    [] OTHER        -> mail

\* The mailbox after the data-write case statement.
Posted(reg) ==
  CASE reg = R_NOTE_ON  -> [pending |-> TRUE, op |-> NOTE_ON, ch |-> host_ch,
                            phase |-> 0]
    [] reg = R_NOTE_OFF -> [mail EXCEPT !.pending = TRUE, !.op = NOTE_OFF,
                                        !.ch = host_ch]
    [] OTHER            -> mail

\* Mutant of Served: a note_off is not struck from the mailbox.
ServedNoteOnOnly(reg) ==
  IF idle /\ mail.pending /\ mail.op = NOTE_ON
  THEN IF mail.phase < 9 THEN [Posted(reg) EXCEPT !.phase = mail.phase + 1]
                         ELSE [Posted(reg) EXCEPT !.pending = FALSE]
  ELSE Posted(reg)

\* The idle branch serves the mailbox as it was before the clock edge, and its
\* assignments to spfm_pending and spfm_phase come after those of Posted.
Served(reg) ==
  IF idle /\ mail.pending
  THEN IF mail.op = NOTE_ON /\ mail.phase < 9
       THEN [Posted(reg) EXCEPT !.phase = mail.phase + 1]
       ELSE [Posted(reg) EXCEPT !.pending = FALSE]
  ELSE Posted(reg)

DataWrite(reg, v) ==
  /\ Paced(reg)
  /\ host_ch' = IF reg = R_CTRL THEN v % CHANS ELSE host_ch
  /\ host' = IF reg \in R_PARAM
             THEN [host EXCEPT ![host_ch][ParamOf(reg)] = Trim(reg, v)]
             ELSE host
  /\ mail' = Served(reg)
  /\ quiet' = IF Command(reg) /\ Wait > 0 THEN 1
              ELSE IF quiet < Wait THEN quiet + 1 ELSE quiet
  /\ asked' = IF reg = R_NOTE_ON
              THEN [asked EXCEPT ![host_ch] = host[host_ch]] ELSE asked

\* Mutants of Tick: the divider reloads one too many, and one too few.
TickReload(n) ==
  /\ sample_cnt' = IF sample_start THEN n ELSE sample_cnt - 1
  /\ ustep' = IF sample_start THEN 0
              ELSE IF ustep < TOTAL_STEPS THEN ustep + 1 ELSE ustep
TickLong  == TickReload(SAMPLE_DIV)
TickShort == TickReload(SAMPLE_DIV - 2)

\* The sample-rate divider and the step counter.
Tick ==
  /\ sample_cnt' = IF sample_start THEN SAMPLE_DIV - 1 ELSE sample_cnt - 1
  /\ ustep' = IF sample_start THEN 0
              ELSE IF ustep < TOTAL_STEPS THEN ustep + 1 ELSE ustep

\* The byte a note_on phase writes, and where.
NoteOffset(p) == IF p < 8 THEN p ELSE p + 1
NoteByte(p, c) ==
  LET o == NoteOffset(p)
  IN  CASE o \in HostParam   -> host[c][o]
        [] o = O_ENV_STATE   -> ATTACK
        [] OTHER             -> 0

\* Mutant of Serve: the note_on phase that clears env_cnt is missing.
ServeNoCount(ram) ==
  IF mail.op = NOTE_ON
  THEN IF mail.phase = 6 THEN ram
       ELSE [ram EXCEPT ![mail.ch][NoteOffset(mail.phase)] =
                          NoteByte(mail.phase, mail.ch)]
  ELSE [ram EXCEPT ![mail.ch][O_ENV_STATE] = RELEASE]

\* The one RAM write of an idle clock that serves the mailbox.
Serve(ram) ==
  IF mail.op = NOTE_ON
  THEN [ram EXCEPT ![mail.ch][NoteOffset(mail.phase)] =
                     NoteByte(mail.phase, mail.ch)]
  ELSE [ram EXCEPT ![mail.ch][O_ENV_STATE] = RELEASE]

\* The part of negedge rst_n that concerns this half.  RAM has no reset, so a
\* note_on that was under way leaves its channel half written.
HostReset ==
  /\ sample_cnt' = SAMPLE_DIV - 1
  /\ ustep' = TOTAL_STEPS
  /\ host_ch' = 0
  /\ host' = [c \in Chan |-> Zeros]
  /\ mail' = NoMail
  /\ quiet' = Wait
  /\ asked' = IF mail.pending /\ mail.op = NOTE_ON
              THEN [asked EXCEPT ![mail.ch] = NoNote] ELSE asked
=============================================================================
