--------------------------- MODULE MC_KeypathRange ---------------------------
(* Instantiates KeypathRange for TLC: every keypath of up to six characters  *)
(* over both bracket pairs, '-' and the digits 0 and 9.  The code's bounds   *)
(* are scaled together: NumBuf 2 accepts one-digit numerals (the code: 8),   *)
(* a 4-bit uint64_t still holds every accepted numeral (9 < 15, as          *)
(* 10^8 - 1 < 2^64), and maxlen 4 lets six-character keypaths reach the cap. *)
EXTENDS KeypathRange

MCAlphabet == {"[", "(", "]", ")", "-", "0", "9"}
MCMaxPathLen == 6
MCMaxLen == 4
MCNumBuf == 2
MCU64Bits == 4
=============================================================================
