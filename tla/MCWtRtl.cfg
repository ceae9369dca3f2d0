SPECIFICATION RtlSpec
CONSTANTS
  CHANS = 1
  STEPS_PER_CH = 20
  SAMPLE_DIV = 22
  BYTE = 8
  LEVEL_MAX = 3
  Wait = 0
  HostVal <- SilentVals
  PowerOn <- PowerOnTone
  Rom <- MCRom
PROPERTY SameAsWtRam
