SPECIFICATION FairSpec
CONSTANTS
  CHANS = 1
  STEPS_PER_CH = 2
  SAMPLE_DIV = 13
  BYTE = 8
  LEVEL_MAX = 2
  Wait = 14
  HostVal <- EnvelopeVals
  PASS_STEP = 1
  PowerOn <- AnyContents
INVARIANTS PaceInv TypeOK MailboxFree NoteIntact EnvelopeSane ActiveTrue
PROPERTIES Answered FadeOut
