----------------------------- MODULE MC_Dispatcher -----------------------------
(* Instantiates Dispatcher for TLC: up to five options, every command     *)
(* (crack with two rounds) and one unknown name, a -p argument too short,  *)
(* of exactly 50 and of 52 characters, one range keypath, a signature of   *)
(* the 128 characters comp2der wants and one too short, and each of -x,    *)
(* -s, -i, -h, -a also in its long form (NULL optarg).  The widths and     *)
(* bounds of the components are those of MC_SignTx and MC_KeypathRange.   *)
EXTENDS Dispatcher

MCMaxArgs == 5
MCPKeyArgs == {49, 50, 52}
MCCmdArgs == {"pubfrompriv", "addrfrompub", "p2pkhaddrfrompub", "genkey",
              "crack", "hdgenmaster",
              "hdprintkey", "hdderive", "sign", "comp2der",
              "bip32maintotest", "other"}
MCKeypathArgs == {<<"[", "0", "-", "1", "]">>, <<"1">>}
MCTxHexArgs == {4}
MCScriptHexArgs == {2, 128}
MCIndexArgs == {1}
MCSighashArgs == {2}
MCAmountArgs == {8}
MCMaxCrackRounds == 2
MCIntBits == 4
MCLongBits == 6
MCTxHexMax == 4
MCNInputs == {1, 2}
MCAlphabet == {"[", "]", "-", "0", "1"}
MCMaxLen == 4
MCNumBuf == 2
MCU64Bits == 4
================================================================================
