SPECIFICATION Spec
CONSTANTS
  LOW = 2
  HIGH = 2
  STEPS = 4
  Datum <- Numbers
INVARIANTS TypeOK Landed
PROPERTIES OnlyTarget Turns Sounds
