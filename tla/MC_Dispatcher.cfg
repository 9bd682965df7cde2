CONSTANTS
  MaxArgs <- MCMaxArgs
  PKeyArgs <- MCPKeyArgs
  CmdArgs <- MCCmdArgs
  KeypathArgs <- MCKeypathArgs
  TxHexArgs <- MCTxHexArgs
  ScriptHexArgs <- MCScriptHexArgs
  IndexArgs <- MCIndexArgs
  SighashArgs <- MCSighashArgs
  AmountArgs <- MCAmountArgs
  MaxCrackRounds <- MCMaxCrackRounds
  IntBits <- MCIntBits
  LongBits <- MCLongBits
  TxHexMax <- MCTxHexMax
  NInputs <- MCNInputs
  Alphabet <- MCAlphabet
  MaxLen <- MCMaxLen
  NumBuf <- MCNumBuf
  U64Bits <- MCU64Bits
  Garbage = Garbage
  Uninit = Uninit
  NULL = NULL
  None = None
SPECIFICATION Spec
INVARIANT TypeOK
INVARIANT CommandsInsideEccContext
INVARIANT ExitStatus
