------------------------------- MODULE WtSynth ------------------------------
(***************************************************************************)
(* rtl/wt_ram.v clock by clock, with a channel's microprogram done in one  *)
(* clock, its PASS_STEP: no other writer touches RAM while the             *)
(* microprogram runs, so the 20 microsteps (module WtMicro) may be taken   *)
(* together.                                                               *)
(***************************************************************************)
EXTENDS WtHost

CONSTANTS
  PASS_STEP,      \* microstep that completes the channel's record (17)
  PowerOn         \* the records a channel's RAM may hold at power-on

ASSUME SynthAssumption ==
  /\ PASS_STEP \in 0..(STEPS_PER_CH - 1)
  /\ PowerOn \subseteq [Offset -> Byte]

VARIABLES
  ram,          \* ram[c][o]: byte o of channel c
  ch_active     \* the activity bits the host can read

vars == <<timevars, hostvars, ram, ch_active>>

TypeOK ==
  /\ HostTypeOK
  /\ ram \in [Chan -> [Offset -> Byte]]
  /\ ch_active \in [Chan -> BOOLEAN]

Init ==
  /\ HostInit
  /\ ram \in [Chan -> PowerOn]
  /\ ch_active = [c \in Chan |-> FALSE]

\* One sample's worth of envelope: what the 4-bit level, the 3-bit state and
\* the counter of record r become.
EnvState(r) == r[O_ENV_STATE] % 8
EnvLevel(r) == r[O_LEVEL] % (LEVEL_MAX + 1)
EnvFires(r) == EnvState(r) # OFF /\ r[O_ENV_CNT] >= r[O_ENV_RATE]

NextState(r) ==
  CASE EnvFires(r) /\ EnvState(r) = ATTACK /\ EnvLevel(r) = LEVEL_MAX -> SUSTAIN
    [] EnvFires(r) /\ EnvState(r) = RELEASE /\ EnvLevel(r) = 0        -> OFF
    [] OTHER                                                  -> EnvState(r)
NextLevel(r) ==
  CASE EnvFires(r) /\ EnvState(r) = ATTACK /\ EnvLevel(r) < LEVEL_MAX
                                                        -> EnvLevel(r) + 1
    [] EnvFires(r) /\ EnvState(r) = RELEASE /\ EnvLevel(r) > 0
                                                        -> EnvLevel(r) - 1
    [] OTHER                                            -> EnvLevel(r)
\* Mutant of NextCnt: only an attack counts.
NextCntAttack(r) ==
  CASE EnvFires(r)           -> 0
    [] EnvState(r) = ATTACK  -> r[O_ENV_CNT] + 1
    [] OTHER                 -> r[O_ENV_CNT]

NextCnt(r) ==
  CASE EnvFires(r)           -> 0
    [] EnvState(r) = OFF     -> r[O_ENV_CNT]
    [] OTHER                 -> r[O_ENV_CNT] + 1

\* The phase is a word of two bytes; the carry out of the high byte is lost.
NextPhase(r) ==
  (r[O_PHASE_LO] + r[O_STEP_LO] + BYTE * (r[O_PHASE_HI] + r[O_STEP_HI]))
    % (BYTE * BYTE)

Pass(r) ==
  [r EXCEPT ![O_PHASE_LO]  = NextPhase(r) % BYTE,
            ![O_PHASE_HI]  = NextPhase(r) \div BYTE,
            ![O_ENV_STATE] = NextState(r),
            ![O_LEVEL]     = NextLevel(r),
            ![O_ENV_CNT]   = NextCnt(r)]

SampleStart ==
  /\ sample_start
  /\ UNCHANGED <<ram, ch_active>>

\* Mutant of MicroStep: the activity bit follows the state read, not the state
\* written back.
MicroStepBefore ==
  /\ ~sample_start /\ ustep < TOTAL_STEPS
  /\ IF ums = PASS_STEP
     THEN /\ ram' = [ram EXCEPT ![uch] = Pass(@)]
          /\ ch_active' = [ch_active EXCEPT ![uch] = EnvState(ram[uch]) # OFF]
     ELSE UNCHANGED <<ram, ch_active>>

MicroStep ==
  /\ ~sample_start /\ ustep < TOTAL_STEPS
  /\ IF ums = PASS_STEP
     THEN /\ ram' = [ram EXCEPT ![uch] = Pass(@)]
          /\ ch_active' = [ch_active EXCEPT ![uch] = NextState(ram[uch]) # OFF]
     ELSE UNCHANGED <<ram, ch_active>>

IdleStep ==
  /\ idle
  /\ ~mail.pending
  /\ UNCHANGED <<ram, ch_active>>

MailStep ==
  /\ idle
  /\ mail.pending
  /\ ram' = Serve(ram)
  /\ ch_active' = IF mail.op = NOTE_ON /\ mail.phase = 9
                  THEN [ch_active EXCEPT ![mail.ch] = TRUE] ELSE ch_active

Clock ==
  /\ \E reg \in Reg : \E v \in Input(reg) : DataWrite(reg, v)
  /\ Tick
  /\ SampleStart \/ MicroStep \/ IdleStep \/ MailStep

\* A reset does not undo the bytes that the channel under way has already
\* written back: a prefix of its first four writes, the counter being last.
Written(n) ==
  {o \in Offset : \E i \in 1..n :
                    o = <<O_PHASE_LO, O_PHASE_HI, O_ENV_STATE, O_LEVEL>>[i]}
Torn(r, n) == [o \in Offset |-> IF o \in Written(n) THEN Pass(r)[o] ELSE r[o]]

Reset ==
  /\ HostReset
  /\ ch_active' = [c \in Chan |-> FALSE]
  /\ \/ UNCHANGED ram
     \/ /\ ustep < TOTAL_STEPS /\ ums <= PASS_STEP
        /\ \E n \in 1..4 : ram' = [ram EXCEPT ![uch] = Torn(@, n)]

Next == Clock \/ Reset

Spec == Init /\ [][Next]_vars

\* The oscillator never stops.
FairSpec == Spec /\ WF_vars(Clock)
-----------------------------------------------------------------------------
Starting(c) == mail.pending /\ mail.op = NOTE_ON /\ mail.ch = c

\* When the host may send the next command the previous one is done, so no
\* command is overwritten in the one-entry mailbox, not even by a pulse in the
\* clock that finishes a note_on (wt_ram.v:243-253 against 430-531).
MailboxFree == quiet = Wait => ~mail.pending

\* A channel that was started holds exactly the five parameters the host had
\* written when it asked for the note: none stale, none torn, none taken from
\* another channel (wt_ram.v:446-519).
NoteIntact ==
  \A c \in Chan : asked[c] # NoNote /\ ~Starting(c) =>
    \A o \in HostParam : ram[c][o] = asked[c][o]

\* Once started, and whatever RAM held at power-on, a channel's envelope stays
\* within its four states, sustains at full level only, is off at level 0 only
\* and never counts past its rate - but for the count of 1 that is left when a
\* sample boundary splits a note_on between clearing the counter and writing the
\* new rate (wt_ram.v:357-400, 468-485, 509-516, 523-527).
EnvelopeSane ==
  \A c \in Chan : asked[c] # NoNote /\ ~Starting(c) =>
    /\ ram[c][O_ENV_STATE] \in OFF..RELEASE
    /\ ram[c][O_ENV_STATE] = SUSTAIN => ram[c][O_LEVEL] = LEVEL_MAX
    /\ ram[c][O_ENV_STATE] = OFF => ram[c][O_LEVEL] = 0
    /\ ram[c][O_ENV_CNT] <= ram[c][O_ENV_RATE] \/ ram[c][O_ENV_CNT] = 1

\* A channel that register 06 reports as active has an envelope that runs: three
\* writers keep this shadow of the state - the pass of the microprogram, the last
\* phase of a note_on, which may come after passes that ran on the note half
\* written, and the reset - while phase 5 and a note_off write the state without
\* it (wt_ram.v:258-265, 400-404, 474-478, 517, 523-527).
ActiveTrue == \A c \in Chan : ch_active[c] => EnvState(ram[c]) # OFF

\* Every command is served, unless a reset cancels it (wt_ram.v:428-532).
Answered == mail.pending ~> ~mail.pending

\* A released channel falls silent unless it is started again, at whatever rate
\* and from whatever level, however often it is released, and whatever a reset
\* leaves half written, if only the resets end (wt_ram.v:360-381).
FadeOut ==
  \/ []<><<Reset>>_vars
  \/ \A c \in Chan : ram[c][O_ENV_STATE] = RELEASE ~> ram[c][O_ENV_STATE] # RELEASE
=============================================================================
