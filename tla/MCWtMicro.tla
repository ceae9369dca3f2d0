------------------------------ MODULE MCWtMicro -----------------------------
(***************************************************************************)
(* Two channels of WtMicro.  TLC starts from three families of RAM         *)
(* contents, and the host plays in the last of them only.                  *)
(***************************************************************************)
EXTENDS WtMicroProofs

\* Commands to channel 0, and one value for vol (register 2); a parameter that
\* is never written keeps its 0.
NoteVals == [reg \in 0..7 |-> CASE reg = 2       -> {1}
                                [] Command(reg)  -> {0}
                                [] OTHER         -> {}]

ClearedRecord == [o \in Offset |-> 0]

\* Arbitrary SRAM: an undefined envelope state, everything at its maximum.
WildRecord == [ClearedRecord EXCEPT
                 ![O_PHASE_LO] = BYTE - 1, ![O_PHASE_HI] = BYTE - 1,
                 ![O_ENV_STATE] = BYTE - 1, ![O_LEVEL] = BYTE - 1,
                 ![O_ENV_CNT] = BYTE - 1, ![O_ENV_RATE] = 1]

\* A step of 36 in 64: sums with and without a carry between the bytes and
\* beyond them.
PitchRecord == [ClearedRecord EXCEPT ![O_STEP_LO] = 4, ![O_STEP_HI] = 4]

\* Every envelope state, defined or not, with counters below and beyond the
\* rate and levels beyond the four bits that count.
EnvelopeRecords ==
  { [ClearedRecord EXCEPT ![O_ENV_STATE] = st, ![O_LEVEL] = lv, ![O_ENV_CNT] = n,
                          ![O_ENV_RATE] = 1, ![O_VOL] = 1] :
      st \in Byte, lv \in {0, BYTE - 1}, n \in {0, BYTE - 1} }

\* Voices to mix: on and off, loud and soft.
VoiceRecords ==
  { [ClearedRecord EXCEPT ![O_ENV_STATE] = st, ![O_VOL] = v, ![O_PHASE_LO] = p] :
      st \in {OFF, SUSTAIN, RELEASE}, v \in {0, 1}, p \in {0, BYTE - 1} }

AnyRecord ==
  {ClearedRecord, WildRecord, PitchRecord} \cup EnvelopeRecords \cup VoiceRecords

\* Mixing, passes beside a neighbour that moves, and played notes.
MCInit ==
  /\ Init
  /\ \/ mem[0] \in VoiceRecords /\ mem[1] \in VoiceRecords \ {ClearedRecord}
     \/ mem[0] \in EnvelopeRecords \cup {PitchRecord} /\ mem[1] = PitchRecord
     \/ mem[0] \in {ClearedRecord, WildRecord} /\ mem[1] = ClearedRecord

\* The host starts a command only beside a silent channel 1.
Played == quiet = Wait /\ quiet' # Wait => NoDac(mem)[1] = ClearedRecord

MCSpec == MCInit /\ [][Next /\ Played]_vars

\* A ROM whose bytes depend on every part of the address.
MCRom(wave, level, vol, index) == (3 * wave + level + 2 * vol + 5 * index) % BYTE
=============================================================================
