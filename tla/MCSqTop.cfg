SPECIFICATION FairSpec
CONSTANTS
  Val = {0, 1, 2, 3}
  Hold = 1
  Gap = 1
  DIGIT = 2
  Words = {0, 6, 13, 14, 15}
INVARIANT TypeOK
PROPERTIES ReloadsWord Pitch InTune
