------------------------------ MODULE MC_SignTx ------------------------------
(* Instantiates SignTx for TLC.  int is 4 bits wide and long/size_t 6 bits,  *)
(* so that 16 (2^IntBits) wraps to 0 and 8 to -8 as 2^32 and 2^31 do.  The  *)
(* tx hex limit is 4 characters; keys of 50 and 52 characters and no key.   *)
EXTENDS SignTx

MCIntBits == 4
MCLongBits == 6
MCTxHexMax == 4
MCTxHexLens == {NULL, 4, 5}
MCIndexArgs == {-1, 0, 1, 2, 16}
MCAmountArgs == {0, 5, 8}
MCNInputs == {1, 2}
MCPKeyLens == {NULL, 50, 52}
=============================================================================
