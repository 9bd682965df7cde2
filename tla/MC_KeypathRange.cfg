CONSTANTS
  Alphabet <- MCAlphabet
  MaxPathLen <- MCMaxPathLen
  MaxLen <- MCMaxLen
  NumBuf <- MCNumBuf
  U64Bits <- MCU64Bits
  Garbage = Garbage
  Uninit = Uninit
SPECIFICATION Spec
INVARIANT TypeOK
PROPERTY ImplementsRangeContract
PROPERTY Termination
