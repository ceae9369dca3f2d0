SPECIFICATION Spec
CONSTANTS
  DIGIT = 3
  Programs <- AllPrograms
  Image <- Bytes
INVARIANT TypeOK
PROPERTY Lockstep
