SPECIFICATION MCSpec
CONSTANTS
  CHANS = 2
  STEPS_PER_CH = 19
  SAMPLE_DIV = 49
  BYTE = 8
  LEVEL_MAX = 1
  Wait = 50
  HostVal <- NoteVals
  PowerOn <- AnyRecord
  Rom <- MCRom
INVARIANTS TypeOK DacExact
PROPERTY Atomic
