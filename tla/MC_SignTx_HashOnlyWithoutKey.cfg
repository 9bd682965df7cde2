CONSTANTS
  IntBits <- MCIntBits
  LongBits <- MCLongBits
  TxHexMax <- MCTxHexMax
  TxHexLens <- MCTxHexLens
  IndexArgs <- MCIndexArgs
  AmountArgs <- MCAmountArgs
  NInputs <- MCNInputs
  PKeyLens <- MCPKeyLens
  NULL = NULL
  None = None
SPECIFICATION Spec
INVARIANT HashOnlyWithoutKey
