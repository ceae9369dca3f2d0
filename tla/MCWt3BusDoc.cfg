SPECIFICATION FairSpec
CONSTANTS
  Val = {0, 1, 2}
  Hold = 3
  Gap = 1
PROPERTY ExactlyOnce
