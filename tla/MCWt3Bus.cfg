SPECIFICATION FairSpec
CONSTANTS
  Val = {0, 1, 2}
  Hold = 3
  Gap = 3
INVARIANT TypeOK
PROPERTIES ExactlyOnce Delivered
